---- MODULE Spec2Model ----
(***************************************************************************)
(* LufthansaAPIClient (travel_buddy/tools/lufthansa_api.py): the OAuth     *)
(* token cache, the authenticated request path and the public data         *)
(* methods, as a state machine.  One operation runs at a time (the client  *)
(* is synchronous); the provider's answers and the passing of time are the *)
(* environment's choices.                                                  *)
(***************************************************************************)
EXTENDS Integers, Sequences, FiniteSets, TLC

(***************************************************************************)
(* Bounds of the model.                                                    *)
(***************************************************************************)
\* how many times the clock advances in one behaviour
MaxTicks == 2
\* how many public operations are invoked in one behaviour
MaxOps == 3

(***************************************************************************)
(* Program constants.                                                      *)
(***************************************************************************)
\* lufthansa_api.py:57  "with 60s buffer"
ExpiryBuffer == 60
\* lufthansa_api.py:80  token_data.get("expires_in", 36000)
DefaultExpiresIn == 36000

(***************************************************************************)
(* Values.                                                                 *)
(***************************************************************************)
\* Optional[str]: None is <<>>, a string s is <<s>>
None == <<>>
Some(s) == <<s>>

\* Python truthiness of an Optional[str]: None and "" are falsy
Truthy(t) == t # None /\ t[1] # ""

\* the access_token strings the provider may answer with
TokenValues == {"", "tokA", "tokB"}

\* the numeric expires_in values the provider may answer with
ExpiresInValues == {0, 61, 120}

\* by how much the clock may advance in one step
Deltas == {59, 60, 35880}

\* HTTP statuses of a data answer
DataStatuses == {200, 300, 404, 500}

\* HTTP statuses of an auth answer that is not the token document
AuthErrorStatuses == {401, 404, 500}

\* requests.Response.raise_for_status: HTTPError for 4xx and 5xx only
RaisesForStatus(status) == status >= 400 /\ status < 600

(***************************************************************************)
(* JSON values, as response.json() gives them: null, a string, a list or   *)
(* an object (a function from its keys).  exc is not a JSON value: it is   *)
(* what an expression that raises evaluates to (e the exception class, msg *)
(* its message).                                                           *)
(***************************************************************************)
JNull == [t |-> "null"]
JStr(s) == [t |-> "str", s |-> s]
JList(items) == [t |-> "list", items |-> items]
JObj(f) == [t |-> "obj", f |-> f]
JExc(e, msg) == [t |-> "exc", e |-> e, msg |-> msg]

\* {} and ""
EmptyObj == JObj([k \in {} |-> JNull])
EmptyStr == JStr("")

\* x.get(key, default): only a dict has .get
Get(x, key, default) ==
    IF x.t = "exc" THEN x
    ELSE IF x.t # "obj" THEN JExc("AttributeError", "object has no attribute 'get'")
    ELSE IF key \in DOMAIN x.f THEN x.f[key]
    ELSE default

\* Python truthiness of a JSON value
JTruthy(x) ==
    CASE x.t = "null" -> FALSE
      [] x.t = "str" -> x.s # ""
      [] x.t = "list" -> x.items # <<>>
      [] x.t = "obj" -> DOMAIN x.f # {}

\* f"{x}" for the values a carrier field takes here
Fmt(x) ==
    CASE x.t = "str" -> x.s
      [] x.t = "null" -> "None"

\* the object f without the keys outside keep
Restrict(f, keep) == JObj([k \in (DOMAIN f.f) \cap keep |-> f.f[k]])

\* the object f with key k set to v
With(f, k, v) == JObj([j \in (DOMAIN f.f) \cup {k} |-> IF j = k THEN v ELSE f.f[j]])

(***************************************************************************)
(* Provider flight objects and response bodies.  A body is what            *)
(* response.json() has to work on: json = FALSE is a body that is not      *)
(* JSON, doc the JSON document otherwise.                                  *)
(***************************************************************************)
FlightA ==
    JObj([ MarketingCarrier |-> JObj([AirlineID |-> JStr("LH"), FlightNumber |-> JStr("456")]),
           FlightStatus |-> JObj([Code |-> JStr("DL")]),
           Departure |->
               JObj([ AirportCode |-> JStr("HAM"),
                      Terminal |-> JObj([Name |-> JStr("1"), Gate |-> JStr("A12")]),
                      ScheduledTimeLocal |-> JObj([DateTime |-> JStr("2026-02-28T10:30")]),
                      EstimatedTimeLocal |-> JObj([DateTime |-> JStr("2026-02-28T11:15")]),
                      ActualTimeLocal |-> JObj([DateTime |-> JStr("2026-02-28T11:20")]) ]),
           Arrival |->
               JObj([ AirportCode |-> JStr("JFK"),
                      Terminal |-> JObj([Name |-> JStr("4"), Gate |-> JStr("B7")]),
                      ScheduledTimeLocal |-> JObj([DateTime |-> JStr("2026-02-28T13:05")]),
                      EstimatedTimeLocal |-> JObj([DateTime |-> JStr("2026-02-28T13:50")]),
                      ActualTimeLocal |-> JObj([DateTime |-> JStr("2026-02-28T13:55")]) ]),
           Equipment |-> JObj([AircraftCode |-> JStr("32N"), AircraftRegistration |-> JStr("DAINA")]) ])

FlightB ==
    JObj([ MarketingCarrier |-> JObj([AirlineID |-> JStr("LX"), FlightNumber |-> JStr("8")]),
           FlightStatus |-> JObj([Code |-> JStr("ZZ")]) ])

\* the provider's document around the value of FlightStatusResource.Flights.Flight
Resp(flight) ==
    JObj([FlightStatusResource |-> JObj([Flights |-> JObj([Flight |-> flight])])])

NoBody == [json |-> FALSE, doc |-> JNull]

\* the bodies of the data answers of Spec
Bodies ==
    { NoBody,
      [json |-> TRUE, doc |-> EmptyObj],
      [json |-> TRUE, doc |-> Resp(FlightA)],
      [json |-> TRUE, doc |-> Resp(JList(<<>>))],
      [json |-> TRUE, doc |-> Resp(JList(<<FlightB, FlightA>>))],
      [json |-> TRUE, doc |-> JObj([FlightStatusResource |-> JNull])] }

DataResponses ==
    { [kind |-> "http", status |-> s, body |-> b] : s \in DataStatuses, b \in Bodies }
    \cup { [kind |-> k, status |-> 0, body |-> NoBody] : k \in {"network", "timeout"} }

\* ekind: expires_in is a number, is missing, or is not a number (a string)
AuthResponses ==
    { [kind |-> "ok", status |-> 200, token |-> t, ekind |-> "num", expires_in |-> e] :
          t \in TokenValues, e \in ExpiresInValues }
    \cup { [kind |-> "ok", status |-> 200, token |-> t, ekind |-> k, expires_in |-> 0] :
          t \in TokenValues, k \in {"missing", "str"} }
    \cup { [kind |-> "nokey", status |-> 200, token |-> "", ekind |-> "missing", expires_in |-> 0] }
    \cup { [kind |-> "http", status |-> s, token |-> "", ekind |-> "missing", expires_in |-> 0] :
          s \in AuthErrorStatuses }
    \cup { [kind |-> k, status |-> 0, token |-> "", ekind |-> "missing", expires_in |-> 0] :
          k \in {"network", "timeout"} }

(***************************************************************************)
(* The public operations and the arguments they are called with.           *)
(***************************************************************************)
Ops == { "get_flight_status", "get_flight_status_by_route", "get_arrivals",
         "get_departures", "get_schedules", "get_airport", "get_airline",
         "get_aircraft" }

\* a, b: the first two positional arguments; date: the date or from_time;
\* limit: the limit of get_arrivals and get_departures (0 where there is none)
Calls ==
    { [op |-> "get_flight_status", a |-> n, b |-> "", date |-> "2026-02-28", limit |-> 0] :
          n \in {"LH456", "LX8"} }
    \cup { [op |-> "get_flight_status_by_route", a |-> r[1], b |-> r[2],
            date |-> "2026-02-28", limit |-> 0] :
          r \in {<<"HAM", "JFK">>, <<"FRA", "HAM">>} }
    \cup { [op |-> "get_schedules", a |-> "HAM", b |-> "JFK", date |-> "2026-02-28",
            limit |-> 0] }
    \cup { [op |-> "get_arrivals", a |-> "FRA", b |-> "", date |-> "2026-02-28T08:00",
            limit |-> 2],
           [op |-> "get_departures", a |-> "FRA", b |-> "", date |-> "2026-02-28T08:00",
            limit |-> 1] }
    \cup { [op |-> "get_airport", a |-> "FRA", b |-> "", date |-> "", limit |-> 0],
           [op |-> "get_airline", a |-> "LH", b |-> "", date |-> "", limit |-> 0],
           [op |-> "get_aircraft", a |-> "32N", b |-> "", date |-> "", limit |-> 0] }

NoCall == [op |-> "none", a |-> "", b |-> "", date |-> "", limit |-> 0]

(***************************************************************************)
(* Outcomes of an operation: nothing yet, a returned value, or a raised    *)
(* exception (exc its class, status the HTTP status of an HTTPError).      *)
(***************************************************************************)
NoVal == [none |-> TRUE]
NoOutcome == [kind |-> "none", val |-> NoVal, exc |-> "", status |-> 0]
Returned(v) == [kind |-> "value", val |-> v, exc |-> "", status |-> 0]
Raised(e, s) == [kind |-> "raised", val |-> NoVal, exc |-> e, status |-> s]

\* what is known of the auth answer a cached token came from
NoIssue == [ekind |-> "none", at |-> 0, expires_in |-> 0]

\* the answer to a request, as far as its transport and status go
NoReply == [kind |-> "none", status |-> 0]

VARIABLES
    access_token,      \* self._access_token
    token_expires_at,  \* self._token_expires_at
    now,               \* time.time()
    ticks,             \* clock advances so far
    pc,                \* "idle", "await_auth", "await_data", "done"
    call,              \* the operation in progress or last finished
    nOps,              \* operations invoked so far
    authCalls,         \* auth POSTs sent by the current operation
    dataCalls,         \* data requests sent by the current operation
    authReply,         \* how the current operation's auth POST was answered
    dataReply,         \* how the current operation's data request was answered
    sentToken,         \* the bearer token of the current operation's data request
    sentAt,            \* when that data request was sent
    sentIssue,         \* the auth answer the token sent came from
    outcome,           \* what the current operation gave its caller
    issued             \* the auth answer access_token came from: when, and its expires_in

\* the client and its environment
clientVars == << access_token, token_expires_at, now, ticks, pc, call, nOps, authCalls,
                 dataCalls, authReply, dataReply, sentToken, sentAt, sentIssue, outcome,
                 issued >>

VARIABLES
    fn,                \* PureSpec: the function applied
    arg,               \* PureSpec: its input
    res,               \* PureSpec: what it returned or raised, once applied
    tool_state,        \* the tool specifications: tool_context.state, a dict
    history            \* the session specifications: the tool calls made so far

pureVars == << fn, arg, res, tool_state, history >>

VARIABLES
    c_token,           \* ConcSpec: self._access_token of the shared client
    c_expires,         \* ConcSpec: self._token_expires_at of the shared client
    c_pc,              \* ConcSpec: where each thread is in _get_access_token
    c_resp,            \* ConcSpec: the auth answer each thread received
    c_from             \* ConcSpec: the thread whose answer each stored field came from

concVars == << c_token, c_expires, c_pc, c_resp, c_from >>

vars == << clientVars, pureVars, concVars >>

(***************************************************************************)
(* Pure helpers of the client.                                             *)
(***************************************************************************)
\* TokenValid with the buffer taken in minutes: a valid token is refreshed too early
TokenValid_LongBuffer ==
    Truthy(access_token) /\ now < token_expires_at - ExpiryBuffer * 60

\* TokenValid without the buffer: a token within 60 s of its expiry is still reused
TokenValid_NoBuffer == Truthy(access_token) /\ now < token_expires_at

\* _get_access_token, line 57: the cached token is still usable
TokenValid == Truthy(access_token) /\ now < token_expires_at - ExpiryBuffer

\* StoredExpiry with a default lifetime of one hour instead of ten
StoredExpiry_ShortDefault(r) ==
    now + (IF r.ekind = "missing" THEN 3600 ELSE r.expires_in)

\* _get_access_token, lines 80-81: the expiry stored for a token document
StoredExpiry(r) ==
    now + (IF r.ekind = "missing" THEN DefaultExpiresIn ELSE r.expires_in)

\* _get_status_description with a fallback that drops the code
StatusDescription_BareUnknown(code) ==
    CASE code = "CD" -> "Cancelled"
      [] code = "DP" -> "Departed"
      [] code = "LD" -> "Landed"
      [] code = "RT" -> "Rerouted"
      [] code = "DV" -> "Diverted"
      [] code = "HD" -> "On Hold"
      [] code = "FE" -> "Flight Early"
      [] code = "NI" -> "Next Information"
      [] code = "OT" -> "On Time"
      [] code = "DL" -> "Delayed"
      [] code = "NO" -> "No Status"
      [] OTHER -> "Unknown"

\* _get_status_description
StatusDescription(code) ==
    CASE code = "CD" -> "Cancelled"
      [] code = "DP" -> "Departed"
      [] code = "LD" -> "Landed"
      [] code = "RT" -> "Rerouted"
      [] code = "DV" -> "Diverted"
      [] code = "HD" -> "On Hold"
      [] code = "FE" -> "Flight Early"
      [] code = "NI" -> "Next Information"
      [] code = "OT" -> "On Time"
      [] code = "DL" -> "Delayed"
      [] code = "NO" -> "No Status"
      [] OTHER -> "Unknown (" \o code \o ")"

\* _get_status_description applied to a JSON value: status_map.get(code, ...)
\* hashes code, and a list or a dict is unhashable
DescribeCode(code) ==
    CASE code.t = "exc" -> code
      [] code.t = "list" -> JExc("TypeError", "unhashable type: 'list'")
      [] code.t = "obj" -> JExc("TypeError", "unhashable type: 'dict'")
      [] code.t = "str" -> JStr(StatusDescription(code.s))
      [] code.t = "null" -> JStr("Unknown (None)")

\* the first of the values vals, taken in order, that is a raised exception
FirstExc(vals) ==
    LET bad == { i \in 1..Len(vals) : vals[i].t = "exc" }
    IN  IF bad = {} THEN JNull
        ELSE vals[CHOOSE i \in bad : \A j \in bad : i <= j]

\* line 311 without the isinstance test: flights[0] on a dict is KeyError: 0
PickFlight_ListOnly(flights) ==
    IF flights.t = "list" THEN flights.items[1] ELSE JExc("KeyError", "0")

\* _parse_flight_status, line 311: "Handle single flight vs list"
PickFlight(flights) ==
    IF flights.t = "list" THEN flights.items[1] ELSE flights

\* .get(key) without its default, which gives None for a missing key
Leaf_NoDefault(obj, key) == Get(obj, key, JNull)

\* .get(key, ""): how _parse_flight_status reads every field but the status code
Leaf(obj, key) == Get(obj, key, EmptyStr)

\* _parse_flight_status, lines 313-343: the values of the result, in the order
\* in which they are evaluated
FlightStatusFields(flight) ==
    LET departure == Get(flight, "Departure", EmptyObj)
        arrival == Get(flight, "Arrival", EmptyObj)
        status == Get(flight, "FlightStatus", EmptyObj)
        equipment == Get(flight, "Equipment", EmptyObj)
        carrier == Get(flight, "MarketingCarrier", EmptyObj)
    IN  << Leaf(carrier, "FlightNumber"),
           Leaf(carrier, "AirlineID"),
           Get(status, "Code", JStr("unknown")),
           DescribeCode(Leaf(status, "Code")),
           Leaf(departure, "AirportCode"),
           Leaf(Get(departure, "Terminal", EmptyObj), "Name"),
           Leaf(Get(departure, "Terminal", EmptyObj), "Gate"),
           Leaf(Get(departure, "ScheduledTimeLocal", EmptyObj), "DateTime"),
           Leaf(Get(departure, "EstimatedTimeLocal", EmptyObj), "DateTime"),
           Leaf(Get(departure, "ActualTimeLocal", EmptyObj), "DateTime"),
           Leaf(arrival, "AirportCode"),
           Leaf(Get(arrival, "Terminal", EmptyObj), "Name"),
           Leaf(Get(arrival, "Terminal", EmptyObj), "Gate"),
           Leaf(Get(arrival, "ScheduledTimeLocal", EmptyObj), "DateTime"),
           Leaf(Get(arrival, "EstimatedTimeLocal", EmptyObj), "DateTime"),
           Leaf(Get(arrival, "ActualTimeLocal", EmptyObj), "DateTime"),
           Leaf(equipment, "AircraftCode"),
           Leaf(equipment, "AircraftRegistration") >>

\* _parse_flight_status, lines 345-347 and what they let through: KeyError and
\* TypeError become an {error, raw} result, any other exception propagates
ParseFailure(x, response) ==
    IF x.e \in {"KeyError", "TypeError"}
    THEN Returned([ error |-> "Failed to parse flight status: " \o x.msg,
                    raw |-> response ])
    ELSE Raised(x.e, 0)

\* _parse_flight_status
ParseFlightStatus(response) ==
    LET flight_data == Get(response, "FlightStatusResource", EmptyObj)
        flights == Get(Get(flight_data, "Flights", EmptyObj), "Flight", JList(<<>>))
    IN  IF flights.t = "exc" THEN ParseFailure(flights, response)
        ELSE IF ~JTruthy(flights) THEN Returned([error |-> "No flight data in response"])
        ELSE LET flight == PickFlight(flights)
                 v == FlightStatusFields(flight)
                 x == FirstExc(<<flight>> \o v)
             IN  IF x.t = "exc" THEN ParseFailure(x, response)
                 ELSE Returned(
                        [ flight |-> v[1],
                          airline |-> v[2],
                          status |-> v[3],
                          status_description |-> v[4],
                          departure |-> [ airport |-> v[5], terminal |-> v[6],
                                          gate |-> v[7], scheduled |-> v[8],
                                          estimated |-> v[9], actual |-> v[10] ],
                          arrival |-> [ airport |-> v[11], terminal |-> v[12],
                                        gate |-> v[13], scheduled |-> v[14],
                                        estimated |-> v[15], actual |-> v[16] ],
                          aircraft |-> [ code |-> v[17], registration |-> v[18] ] ])

\* _parse_single_flight: the values of the result in the order of evaluation,
\* then the result, or the exception raised on the way
ParseSingleFlight(flight) ==
    LET departure == Get(flight, "Departure", EmptyObj)
        arrival == Get(flight, "Arrival", EmptyObj)
        carrier == Get(flight, "MarketingCarrier", EmptyObj)
        v == << departure, arrival,
                Get(carrier, "AirlineID", EmptyStr),
                Get(carrier, "FlightNumber", EmptyStr),
                Get(Get(flight, "FlightStatus", EmptyObj), "Code", EmptyStr),
                Get(Get(departure, "ScheduledTimeLocal", EmptyObj), "DateTime", EmptyStr),
                Get(Get(arrival, "ScheduledTimeLocal", EmptyObj), "DateTime", EmptyStr),
                Get(departure, "AirportCode", EmptyStr),
                Get(arrival, "AirportCode", EmptyStr) >>
        x == FirstExc(v)
    IN  IF x.t = "exc" THEN Raised(x.e, 0)
        ELSE Returned([ flight |-> JStr(Fmt(v[3]) \o Fmt(v[4])),
                        status |-> v[5],
                        departure_time |-> v[6],
                        arrival_time |-> v[7],
                        origin |-> v[8],
                        destination |-> v[9] ])

\* lines 355-356 dropping a value that is not a list
AsList_NoWrap(flights) ==
    IF flights.t = "list" THEN flights.items ELSE <<>>

\* _parse_route_flights, lines 355-356: always a list
AsList(flights) ==
    IF flights.t = "list" THEN flights.items
    ELSE IF JTruthy(flights) THEN <<flights>> ELSE <<>>

\* _parse_route_flights: one parsed entry per flight, with their number. Its
\* except clause (KeyError, TypeError) catches nothing of what
\* _parse_single_flight raises on a non-object, which is AttributeError.
ParseRouteFlights(response) ==
    LET flight_data == Get(response, "FlightStatusResource", EmptyObj)
        flights == Get(Get(flight_data, "Flights", EmptyObj), "Flight", JList(<<>>))
    IN  IF flights.t = "exc" THEN Raised(flights.e, 0)
        ELSE LET list == AsList(flights)
                 parsed == [ i \in 1..Len(list) |-> ParseSingleFlight(list[i]) ]
                 bad == { i \in 1..Len(list) : parsed[i].kind = "raised" }
             IN  IF bad # {} THEN parsed[CHOOSE i \in bad : \A j \in bad : i <= j]
                 ELSE Returned([ flights |-> [ i \in 1..Len(list) |-> parsed[i].val ],
                                 count |-> Len(list) ])

\* _make_request, lines 115-131, on the provider's answer r to the data request:
\* what it returns (the JSON document) or raises
MakeRequest(r) ==
    IF r.kind = "network" THEN Raised("ConnectionError", 0)
    ELSE IF r.kind = "timeout" THEN Raised("Timeout", 0)
    ELSE IF RaisesForStatus(r.status) THEN Raised("HTTPError", r.status)
    ELSE IF ~r.body.json THEN Raised("JSONDecodeError", 0)
    ELSE Returned(r.body.doc)

\* the status an `except requests.HTTPError` clause of a public method maps to a result
NotFound == 404

\* get_flight_status without the status test: every HTTPError becomes "not found"
GetFlightStatus_AnyHTTPError(c, r) ==
    LET m == MakeRequest(r)
    IN  IF m.kind = "value" THEN ParseFlightStatus(m.val)
        ELSE IF m.exc = "HTTPError"
             THEN Returned([error |-> "Flight " \o c.a \o " not found for " \o c.date])
             ELSE m

\* get_flight_status with the arguments of the message swapped
GetFlightStatus_Swapped(c, r) ==
    LET m == MakeRequest(r)
    IN  IF m.kind = "value" THEN ParseFlightStatus(m.val)
        ELSE IF m.exc = "HTTPError" /\ m.status = NotFound
             THEN Returned([error |-> "Flight " \o c.date \o " not found for " \o c.a])
             ELSE m

\* get_flight_status, lines 163-169
GetFlightStatus(c, r) ==
    LET m == MakeRequest(r)
    IN  IF m.kind = "value" THEN ParseFlightStatus(m.val)
        ELSE IF m.exc = "HTTPError" /\ m.status = NotFound
             THEN Returned([error |-> "Flight " \o c.a \o " not found for " \o c.date])
             ELSE m

\* get_flight_status_by_route giving the 404 the shape of get_flight_status's
GetFlightStatusByRoute_ErrorShape(c, r) ==
    LET m == MakeRequest(r)
    IN  IF m.kind = "value" THEN ParseRouteFlights(m.val)
        ELSE IF m.exc = "HTTPError" /\ m.status = NotFound
             THEN Returned([error |-> "No flights found " \o c.a \o "→" \o c.b
                                      \o " on " \o c.date])
             ELSE m

\* get_flight_status_by_route, lines 195-201
GetFlightStatusByRoute(c, r) ==
    LET m == MakeRequest(r)
    IN  IF m.kind = "value" THEN ParseRouteFlights(m.val)
        ELSE IF m.exc = "HTTPError" /\ m.status = NotFound
             THEN Returned([ flights |-> <<>>,
                             message |-> "No flights found " \o c.a \o "→" \o c.b
                                         \o " on " \o c.date ])
             ELSE m

\* get_schedules without its except clause
GetSchedules_NoExcept(c, r) == MakeRequest(r)

\* get_schedules, lines 271-276
GetSchedules(c, r) ==
    LET m == MakeRequest(r)
    IN  IF m.kind = "value" THEN m
        ELSE IF m.exc = "HTTPError" /\ m.status = NotFound
             THEN Returned([schedules |-> <<>>, message |-> "No schedules found"])
             ELSE m

\* the pass-through methods with an except clause like get_schedules's
PassThrough_Maps404(c, r) ==
    LET m == MakeRequest(r)
    IN  IF m.kind = "raised" /\ m.exc = "HTTPError" /\ m.status = NotFound
        THEN Returned([flights |-> <<>>, message |-> "Not found"])
        ELSE m

\* get_arrivals, get_departures, get_airport, get_airline, get_aircraft:
\* `return self._make_request(...)` with nothing caught
PassThrough(c, r) == MakeRequest(r)

\* what operation c gives its caller when the provider answers its data request with r
OpOutcome(c, r) ==
    CASE c.op = "get_flight_status" -> GetFlightStatus(c, r)
      [] c.op = "get_flight_status_by_route" -> GetFlightStatusByRoute(c, r)
      [] c.op = "get_schedules" -> GetSchedules(c, r)
      [] OTHER -> PassThrough(c, r)

(***************************************************************************)
(* The state machine.                                                      *)
(***************************************************************************)
\* the clock when the client is constructed
StartTime == 1000

\* the threads of ConcSpec
Threads == {1, 2}

\* what a thread of ConcSpec holds of the answer to its auth POST
NoAnswer == [kind |-> "none", token |-> "", expires_in |-> 0]

\* tool_context.state before any tool has stored anything
EmptyState == [k \in {} |-> NoVal]

\* PureSpec's variables, where no function is being examined
PureIdle ==
    /\ fn = "none"
    /\ arg = JNull
    /\ res = NoOutcome
    /\ tool_state = EmptyState
    /\ history = <<>>

\* ConcSpec's variables, where no thread has called the client
ConcIdle ==
    /\ c_token = None
    /\ c_expires = 0
    /\ c_pc = [t \in Threads |-> "idle"]
    /\ c_resp = [t \in Threads |-> NoAnswer]
    /\ c_from = [token |-> 0, expiry |-> 0]

\* LufthansaAPIClient.__init__, lines 45-47, and the environment before any call
ClientInit ==
    /\ access_token = None
    /\ token_expires_at = 0
    /\ now = StartTime
    /\ ticks = 0
    /\ pc = "idle"
    /\ call = NoCall
    /\ nOps = 0
    /\ authCalls = 0
    /\ dataCalls = 0
    /\ authReply = NoReply
    /\ dataReply = NoReply
    /\ sentToken = None
    /\ sentAt = 0
    /\ sentIssue = NoIssue
    /\ outcome = NoOutcome
    /\ issued = NoIssue

Init == ClientInit /\ PureIdle /\ ConcIdle

\* time passes (also while a request is in flight)
Tick ==
    /\ ticks < MaxTicks
    /\ \E d \in Deltas : now' = now + d
    /\ ticks' = ticks + 1
    /\ UNCHANGED << access_token, token_expires_at, pc, call, nOps, authCalls,
                    dataCalls, authReply, dataReply, sentToken, sentAt, sentIssue,
                    outcome, issued >>
    /\ UNCHANGED << pureVars, concVars >>

\* A public method is called: _make_request line 107 calls _get_access_token,
\* which returns the cached token (lines 57-58), and the data request goes out
\* with it (lines 109-122); or the auth POST goes out (lines 63-74).
Invoke ==
    /\ pc \in {"idle", "done"}
    /\ nOps < MaxOps
    /\ \E c \in Calls : call' = c
    /\ nOps' = nOps + 1
    /\ outcome' = NoOutcome
    /\ authReply' = NoReply
    /\ dataReply' = NoReply
    /\ IF TokenValid
       THEN /\ pc' = "await_data"
            /\ authCalls' = 0
            /\ dataCalls' = 1
            /\ sentToken' = access_token
            /\ sentAt' = now
            /\ sentIssue' = issued
       ELSE /\ pc' = "await_auth"
            /\ authCalls' = 1
            /\ dataCalls' = 0
            /\ sentToken' = None
            /\ sentAt' = 0
            /\ sentIssue' = NoIssue
    /\ UNCHANGED << access_token, token_expires_at, now, ticks, issued >>
    /\ UNCHANGED << pureVars, concVars >>

\* the failure re-raised as it is, not wrapped in RuntimeError
AuthFailure_Unwrapped(r) ==
    IF r.kind = "http" THEN Raised("HTTPError", r.status)
    ELSE IF r.kind = "timeout" THEN Raised("Timeout", 0)
    ELSE Raised("ConnectionError", 0)

\* _get_access_token, lines 86-88: what a failed auth POST gives the caller.
\* HTTPError, ConnectionError and Timeout are all requests.RequestException.
AuthFailure(r) == Raised("RuntimeError", 0)

\* public methods whose except clause turns every exception into the result
\* they give for a 404
ThroughMethod_CatchesAll(c, e) ==
    IF c.op \in {"get_flight_status", "get_flight_status_by_route", "get_schedules"}
    THEN OpOutcome(c, [kind |-> "http", status |-> NotFound, body |-> NoBody])
    ELSE e

\* lines 166-169, 198-201 and 273-276: an exception e that left _make_request
\* before the data request meets the public method's `except requests.HTTPError`,
\* which gives the 404 result for an HTTPError of status 404 and re-raises the
\* rest; the other methods have no except clause.
ThroughMethod(c, e) ==
    IF /\ c.op \in {"get_flight_status", "get_flight_status_by_route", "get_schedules"}
       /\ e.exc = "HTTPError" /\ e.status = NotFound
    THEN OpOutcome(c, [kind |-> "http", status |-> NotFound, body |-> NoBody])
    ELSE e

\* The auth POST fails: HTTP error status (raise_for_status, line 75), network
\* failure or timeout. Nothing is stored, nothing is retried, the error propagates
\* through _make_request and the public method (none catches RuntimeError).
AuthFail ==
    /\ pc = "await_auth"
    /\ \E r \in AuthResponses :
          /\ r.kind \in {"network", "timeout"} \/ (r.kind = "http" /\ RaisesForStatus(r.status))
          /\ outcome' = ThroughMethod(call, AuthFailure(r))
          /\ authReply' = [kind |-> r.kind, status |-> r.status]
    /\ pc' = "done"
    /\ UNCHANGED << access_token, token_expires_at, now, ticks, call, nOps, authCalls,
                    dataCalls, dataReply, sentToken, sentAt, sentIssue, issued >>
    /\ UNCHANGED << pureVars, concVars >>

\* The auth POST is answered 200 with a JSON body that has no access_token:
\* line 78 raises KeyError, which line 86 does not catch.
AuthNoKey ==
    /\ pc = "await_auth"
    /\ \E r \in AuthResponses :
          /\ r.kind = "nokey"
          /\ outcome' = Raised("KeyError", 0)
          /\ authReply' = [kind |-> r.kind, status |-> r.status]
    /\ pc' = "done"
    /\ UNCHANGED << access_token, token_expires_at, now, ticks, call, nOps, authCalls,
                    dataCalls, dataReply, sentToken, sentAt, sentIssue, issued >>
    /\ UNCHANGED << pureVars, concVars >>

\* The token document's expires_in is not a number: line 78 has stored the token,
\* line 81 raises TypeError, which line 86 does not catch.
AuthBadExpiry ==
    /\ pc = "await_auth"
    /\ \E r \in AuthResponses :
          /\ r.kind = "ok" /\ r.ekind = "str"
          /\ access_token' = Some(r.token)
          /\ outcome' = Raised("TypeError", 0)
          /\ authReply' = [kind |-> r.kind, status |-> r.status]
          /\ issued' = [ekind |-> r.ekind, at |-> now, expires_in |-> 0]
    /\ pc' = "done"
    /\ UNCHANGED << token_expires_at, now, ticks, call, nOps, authCalls,
                    dataCalls, dataReply, sentToken, sentAt, sentIssue >>
    /\ UNCHANGED << pureVars, concVars >>

\* The auth POST succeeds: the token and its expiry are stored (lines 77-84),
\* the token is returned to _make_request and the data request goes out with it.
AuthOk ==
    /\ pc = "await_auth"
    /\ \E r \in AuthResponses :
          /\ r.kind = "ok" /\ r.ekind # "str"
          /\ access_token' = Some(r.token)
          /\ token_expires_at' = StoredExpiry(r)
          /\ authReply' = [kind |-> r.kind, status |-> r.status]
          /\ issued' = [ekind |-> r.ekind, at |-> now, expires_in |-> r.expires_in]
    /\ sentToken' = access_token'
    /\ sentIssue' = issued'
    /\ sentAt' = now
    /\ dataCalls' = dataCalls + 1
    /\ pc' = "await_data"
    /\ UNCHANGED << now, ticks, call, nOps, authCalls, dataReply, outcome >>
    /\ UNCHANGED << pureVars, concVars >>

\* a data answer that forgets the cached token when the request failed
DataRespond_DropsToken ==
    /\ pc = "await_data"
    /\ \E r \in DataResponses :
          /\ outcome' = OpOutcome(call, r)
          /\ dataReply' = [kind |-> r.kind, status |-> r.status]
          /\ access_token' = IF MakeRequest(r).kind = "raised" THEN None ELSE access_token
    /\ pc' = "done"
    /\ UNCHANGED << token_expires_at, now, ticks, call, nOps, authCalls,
                    dataCalls, authReply, sentToken, sentAt, sentIssue, issued >>
    /\ UNCHANGED << pureVars, concVars >>

\* The data request is answered (or fails): the public method returns or raises.
DataRespond ==
    /\ pc = "await_data"
    /\ \E r \in DataResponses :
          /\ outcome' = OpOutcome(call, r)
          /\ dataReply' = [kind |-> r.kind, status |-> r.status]
    /\ pc' = "done"
    /\ UNCHANGED << access_token, token_expires_at, now, ticks, call, nOps, authCalls,
                    dataCalls, authReply, sentToken, sentAt, sentIssue, issued >>
    /\ UNCHANGED << pureVars, concVars >>

\* What the caller can read from the exception a public method raised: the
\* exceptions requests raises for the data request (lines 116-123, re-raised
\* unchanged at lines 128 and 131) carry that request, e.request, whose
\* Authorization header (line 111) holds the token sent; no other outcome does.
AttachedAuthorization ==
    IF /\ outcome.kind = "raised"
       /\ outcome.exc \in {"HTTPError", "ConnectionError", "Timeout"}
       /\ dataCalls = 1
    THEN sentToken
    ELSE None

Next == Tick \/ Invoke \/ AuthFail \/ AuthNoKey \/ AuthBadExpiry \/ AuthOk \/ DataRespond

Spec == Init /\ [][Next]_vars

TypeOK ==
    /\ pc \in {"idle", "await_auth", "await_data", "done"}
    /\ authCalls \in 0..1
    /\ dataCalls \in 0..1
    /\ nOps \in 0..MaxOps
    /\ outcome.kind \in {"none", "value", "raised"}
    /\ call.op \in Ops \cup {"none"}

(***************************************************************************)
(* PureSpec: the parsing functions applied to a 2xx answer.  Init draws    *)
(* the function and its input, one action per function applies it.        *)
(***************************************************************************)
TopKeys == {"MarketingCarrier", "FlightStatus", "Departure", "Arrival", "Equipment"}
PointKeys == { "AirportCode", "Terminal", "ScheduledTimeLocal", "EstimatedTimeLocal",
               "ActualTimeLocal" }

\* flight objects: FlightA with parts of it missing, at each level
FlightObjects ==
    { Restrict(FlightA, K) : K \in SUBSET TopKeys }
    \cup { With(FlightA, "Departure", Restrict(FlightA.f.Departure, K)) :
              K \in SUBSET PointKeys }
    \cup { With(FlightA, "Arrival", Restrict(FlightA.f.Arrival, K)) :
              K \in SUBSET PointKeys }
    \cup { With(FlightA, "MarketingCarrier", EmptyObj),
           With(FlightA, "MarketingCarrier", Restrict(FlightA.f.MarketingCarrier, {"AirlineID"})),
           With(FlightA, "FlightStatus", EmptyObj),
           With(FlightA, "Equipment", Restrict(FlightA.f.Equipment, {"AircraftCode"})),
           With(FlightA, "Departure", With(FlightA.f.Departure, "Terminal", EmptyObj)),
           With(FlightA, "Arrival",
                With(FlightA.f.Arrival, "Terminal",
                     Restrict(FlightA.f.Arrival.f.Terminal, {"Name"}))),
           With(FlightA, "Departure", With(FlightA.f.Departure, "ActualTimeLocal", EmptyObj)),
           FlightB }

\* values in the place of a flight that have a part of the wrong type
MalformedFlights ==
    { JStr("x"),
      With(FlightA, "FlightStatus", JObj([Code |-> JList(<<>>)])),
      With(FlightA, "FlightStatus", JObj([Code |-> JNull])),
      With(FlightA, "Departure", JStr("HAM")),
      With(FlightA, "MarketingCarrier", JNull),
      With(FlightA, "Departure", With(FlightA.f.Departure, "Terminal", JNull)) }

\* the JSON documents of the 2xx answers examined
Documents ==
    { Resp(F) : F \in FlightObjects \cup MalformedFlights }
    \cup { Resp(JList(<<F>>)) : F \in FlightObjects \cup MalformedFlights }
    \cup { Resp(JList(<<>>)), Resp(JNull), Resp(JList(<<FlightB, FlightA>>)),
           Resp(JList(<<FlightA, FlightB, FlightA>>)),
           Resp(JList(<<FlightA, JStr("x")>>)),
           EmptyObj, JNull, JList(<<>>),
           JObj([FlightStatusResource |-> JNull]),
           JObj([FlightStatusResource |-> JObj([Flights |-> JList(<<>>)])]) }

\* the 2xx answers examined: a status, and a body that is a document or not JSON
OkAnswers ==
    { [kind |-> "http", status |-> s, body |-> [json |-> TRUE, doc |-> d]] :
          s \in {200}, d \in Documents }
    \cup { [kind |-> "http", status |-> 200, body |-> NoBody] }

\* status codes: the eleven of the table and others
StatusCodes ==
    { "CD", "DP", "LD", "RT", "DV", "HD", "FE", "NI", "OT", "DL", "NO",
      "", "ZZ", "cd", "XX", "unknown" }

\* the functions of PureSpec and the inputs of each
PureFns == { "get_flight_status", "get_flight_status_by_route", "single_or_list",
             "status_description" }

\* a 404 answer
NotFoundAnswer == [kind |-> "http", status |-> 404, body |-> [json |-> TRUE, doc |-> EmptyObj]]

PureInputs(f) ==
    CASE f = "get_flight_status" -> OkAnswers \cup {NotFoundAnswer}
      [] f = "get_flight_status_by_route" -> OkAnswers \cup {NotFoundAnswer}
      [] f = "single_or_list" -> FlightObjects
      [] f = "status_description" -> { JStr(c) : c \in StatusCodes }

\* the calls whose answers PureSpec examines
StatusCall ==
    [op |-> "get_flight_status", a |-> "LH456", b |-> "", date |-> "2026-02-28", limit |-> 0]
RouteCall ==
    [ op |-> "get_flight_status_by_route", a |-> "HAM", b |-> "JFK", date |-> "2026-02-28",
      limit |-> 0 ]

\* the 200 answer whose document is d
Ok(d) == [kind |-> "http", status |-> 200, body |-> [json |-> TRUE, doc |-> d]]

PureInit ==
    /\ ClientInit
    /\ ConcIdle
    /\ fn \in PureFns
    /\ arg \in PureInputs(fn)
    /\ res = NoOutcome
    /\ tool_state = EmptyState
    /\ history = <<>>

\* get_flight_status on the answer arg
ApplyFlightStatus ==
    /\ fn = "get_flight_status" /\ res.kind = "none"
    /\ res' = GetFlightStatus(StatusCall, arg)
    /\ UNCHANGED << fn, arg, tool_state, history, clientVars, concVars >>

\* get_flight_status_by_route on the answer arg
ApplyRoute ==
    /\ fn = "get_flight_status_by_route" /\ res.kind = "none"
    /\ res' = GetFlightStatusByRoute(RouteCall, arg)
    /\ UNCHANGED << fn, arg, tool_state, history, clientVars, concVars >>

\* get_flight_status on the flight object arg sent alone, and sent as a
\* one-element list
ApplySingleOrList ==
    /\ fn = "single_or_list" /\ res.kind = "none"
    /\ res' = Returned([ single |-> GetFlightStatus(StatusCall, Ok(Resp(arg))),
                         list |-> GetFlightStatus(StatusCall, Ok(Resp(JList(<<arg>>)))) ])
    /\ UNCHANGED << fn, arg, tool_state, history, clientVars, concVars >>

\* _get_status_description on the code arg
ApplyStatusDescription ==
    /\ fn = "status_description" /\ res.kind = "none"
    /\ res' = Returned([description |-> StatusDescription(arg.s)])
    /\ UNCHANGED << fn, arg, tool_state, history, clientVars, concVars >>

PureNext == ApplyFlightStatus \/ ApplyRoute \/ ApplySingleOrList \/ ApplyStatusDescription

PureSpec == PureInit /\ [][PureNext]_vars

(***************************************************************************)
(* ToolSpec: the tool find_alternative_flights (sub_agents/flight/tools.py) *)
(* applied to what get_flight_status_by_route gave it.  Init draws that    *)
(* outcome and whether a tool context was passed.                          *)
(***************************************************************************)
\* config.py, line 61
LUFTHANSA_GROUP_AIRLINES == <<"LH", "LX", "OS", "SN", "EW">>

\* lh_flights[:5]
TopN == 5

\* the longest list of route flights examined
MaxFlights == 6

\* an entry of the `flights` of a route result, as _parse_single_flight builds it
Entry(designator, status, departure_time) ==
    [ flight |-> JStr(designator), status |-> JStr(status),
      departure_time |-> departure_time, arrival_time |-> JStr("2026-02-28T13:05"),
      origin |-> JStr("HAM"), destination |-> JStr("JFK") ]

\* the entries the route results are made of: group flights and another
\* airline's, two with the same departure time, one without a departure time
EntryPool ==
    { Entry("LH400", "DL", JStr("2026-02-28T10:30")),
      Entry("LX8", "CD", JStr("2026-02-28T08:15")),
      Entry("UA901", "OT", JStr("2026-02-28T09:00")),
      Entry("EW7", "OT", JStr("2026-02-28T10:30")),
      Entry("OS1", "CD", EmptyStr) }

\* an entry whose DateTime was null in the provider's answer
NullTimeEntry == Entry("SN2", "OT", JNull)

\* what get_flight_status_by_route gave the tool
RouteOutcomes ==
    { Returned([flights |-> fs, count |-> Len(fs)]) :
          fs \in UNION { [1..n -> EntryPool] : n \in 0..MaxFlights } }
    \cup { Returned([flights |-> fs, count |-> Len(fs)]) :
              fs \in { <<NullTimeEntry>>,
                       <<Entry("LH400", "DL", JStr("2026-02-28T10:30")), NullTimeEntry>>,
                       <<NullTimeEntry, Entry("UA901", "OT", JStr("2026-02-28T09:00"))>> } }
    \cup { Returned([flights |-> <<>>, message |-> "No flights found HAM→JFK on 2026-02-28"]),
           Raised("HTTPError", 500), Raised("AttributeError", 0) }

\* str.startswith
StartsWith(str, prefix) ==
    Len(str) >= Len(prefix) /\ SubSeq(str, 1, Len(prefix)) = prefix

\* line 154: the flight's designator starts with one of the group's codes
IsGroupFlight(f) ==
    \E i \in 1..Len(LUFTHANSA_GROUP_AIRLINES) :
        StartsWith(f.flight.s, LUFTHANSA_GROUP_AIRLINES[i])

\* the place of a departure time in the order of Python's string comparison,
\* for the strings of the entries
TimeRank(time) ==
    CASE time = "" -> 0
      [] time = "2026-02-28T08:15" -> 1
      [] time = "2026-02-28T09:00" -> 2
      [] time = "2026-02-28T10:30" -> 3

\* x put into the sorted list after every entry that is not later than it
InsertByDeparture(sorted, x) ==
    LET before == { i \in 1..Len(sorted) :
                       TimeRank(sorted[i].departure_time.s) <= TimeRank(x.departure_time.s) }
        n == Cardinality(before)
    IN  SubSeq(sorted, 1, n) \o <<x>> \o SubSeq(sorted, n + 1, Len(sorted))

\* find_alternative_flights without the sort of line 158
SortByDeparture_Unsorted(fs) == fs

RECURSIVE SortByDeparture(_)
\* line 158: list.sort(key=departure_time), a stable ascending sort
SortByDeparture(fs) ==
    IF fs = <<>> THEN <<>>
    ELSE InsertByDeparture(SortByDeparture(SubSeq(fs, 1, Len(fs) - 1)), fs[Len(fs)])

\* lines 161-167 without the test of the status: the first flight of lh
Recommendation_IgnoresStatus(lh) ==
    IF lh = <<>> THEN None
    ELSE Some(Fmt(lh[1].flight) \o " - departs " \o Fmt(lh[1].departure_time))

\* lines 161-167: the first flight of lh that is not cancelled, as a text
Recommendation(lh) ==
    LET open == { i \in 1..Len(lh) : lh[i].status # JStr("CD") }
    IN  IF open = {} THEN None
        ELSE LET f == lh[CHOOSE i \in open : \A j \in open : i <= j]
             IN  Some(Fmt(f.flight) \o " - departs " \o Fmt(f.departure_time))

\* the text of an exception, str(e), as far as the model knows it
ExcText(o) == o.exc

\* find_alternative_flights, lines 145-187, on the outcome route of
\* get_flight_status_by_route: the dict it returns. Sorting two or more
\* flights of which one has a departure_time that is not a string compares
\* None with something and raises TypeError, caught at line 185.
FindAlternativeFlights(c, preferred_class, route) ==
    IF route.kind = "raised"
    THEN [error |-> "Failed to find alternatives: " \o ExcText(route)]
    ELSE LET flights == IF "flights" \in DOMAIN route.val THEN route.val.flights ELSE <<>>
             lh_flights == SelectSeq(flights, IsGroupFlight)
         IN  IF Len(lh_flights) >= 2
                /\ \E i \in 1..Len(lh_flights) : lh_flights[i].departure_time.t # "str"
             THEN [error |-> "Failed to find alternatives: "
                             \o "'<' not supported between instances of 'NoneType' and 'str'"]
             ELSE LET sorted == SortByDeparture(lh_flights)
                  IN  [ origin |-> c.a,
                        destination |-> c.b,
                        date |-> c.date,
                        flights |-> SubSeq(sorted, 1, IF Len(sorted) < TopN THEN Len(sorted) ELSE TopN),
                        count |-> Len(sorted),
                        recommendation |-> Recommendation(sorted),
                        preferred_class |-> preferred_class ]

ToolInit ==
    /\ ClientInit
    /\ ConcIdle
    /\ fn = "find_alternative_flights"
    /\ arg \in { [route |-> o, ctx |-> x] : o \in RouteOutcomes, x \in BOOLEAN }
    /\ res = NoOutcome
    /\ tool_state = EmptyState
    /\ history = <<>>

\* find_alternative_flights("HAM", "JFK", "2026-02-28"), with a tool context or
\* without: the result is stored under "alternatives" when there is a context
\* and nothing was raised (lines 180-181)
ApplyFindAlternatives ==
    /\ fn = "find_alternative_flights" /\ res.kind = "none"
    /\ LET result == FindAlternativeFlights(RouteCall, "business", arg.route)
       IN  /\ res' = Returned(result)
           /\ tool_state' = IF arg.ctx /\ "error" \notin DOMAIN result
                            THEN [k \in {"alternatives"} |-> result]
                            ELSE tool_state
    /\ UNCHANGED << fn, arg, history, clientVars, concVars >>

ToolNext == ApplyFindAlternatives

ToolSpec == ToolInit /\ [][ToolNext]_vars

(***************************************************************************)
(* CalendarSpec: the tool find_meeting_conflicts                           *)
(* (sub_agents/calendar/tools.py).  Init draws the arrival time, the date  *)
(* and whether a tool context was passed.                                  *)
(***************************************************************************)
\* an event of MOCK_CALENDAR
Event(id, title, start, end, location, priority, attendees, description) ==
    [ id |-> id, title |-> title, start |-> start, end |-> end,
      timezone |-> "America/New_York", location |-> location, priority |-> priority,
      attendees |-> attendees, description |-> description ]

\* MOCK_CALENDAR, lines 20-78
MOCK_CALENDAR ==
    [ d \in {"2026-02-28", "2026-03-01"} |->
        IF d = "2026-02-28"
        THEN << Event("evt_001", "Board Meeting with CEO", "16:00", "18:00",
                      "NYC Office - Boardroom", "critical",
                      << [email |-> "ceo@company.com", name |-> "Jane Smith"],
                         [email |-> "cfo@company.com", name |-> "John Doe"] >>,
                      "Q1 Strategy Review - Presentation Required"),
                Event("evt_002", "Client Dinner - Acme Corp", "19:00", "21:00",
                      "The Capital Grille, NYC", "important",
                      << [email |-> "john@acmecorp.com", name |-> "John Client"] >>,
                      "Contract renewal discussion"),
                Event("evt_003", "Team Sync Call", "10:00", "10:30",
                      "Virtual - Zoom", "flexible",
                      << [email |-> "team@company.com", name |-> "Dev Team"] >>,
                      "Weekly standup") >>
        ELSE << Event("evt_004", "Client Workshop", "09:00", "12:00",
                      "Client HQ", "critical",
                      << [email |-> "client@bigcorp.com", name |-> "Big Corp Team"] >>,
                      "Product demo and training") >> ]

\* MOCK_CALENDAR.get(date, [])
EventsOn(date) == IF date \in DOMAIN MOCK_CALENDAR THEN MOCK_CALENDAR[date] ELSE <<>>

\* the decimal digits
DigitValue ==
    [ c \in {"0", "1", "2", "3", "4", "5", "6", "7", "8", "9"} |->
        CASE c = "0" -> 0 [] c = "1" -> 1 [] c = "2" -> 2 [] c = "3" -> 3 [] c = "4" -> 4
          [] c = "5" -> 5 [] c = "6" -> 6 [] c = "7" -> 7 [] c = "8" -> 8 [] c = "9" -> 9 ]

\* int(str) succeeds: for the strings used here, when str is one or more digits
IsInt(str) ==
    /\ Len(str) >= 1
    /\ \A i \in 1..Len(str) : SubSeq(str, i, i) \in DOMAIN DigitValue

RECURSIVE IntOf(_)
\* int(str) of a string of digits
IntOf(str) ==
    IF Len(str) = 0 THEN 0
    ELSE 10 * IntOf(SubSeq(str, 1, Len(str) - 1)) + DigitValue[SubSeq(str, Len(str), Len(str))]

RECURSIVE Split(_)
\* str.split(":")
Split(str) ==
    LET colons == { i \in 1..Len(str) : SubSeq(str, i, i) = ":" }
    IN  IF colons = {} THEN <<str>>
        ELSE LET i == CHOOSE c \in colons : \A d \in colons : c <= d
             IN  <<SubSeq(str, 1, i - 1)>> \o Split(SubSeq(str, i + 1, Len(str)))

\* a, b = map(int, str.split(":")) raises ValueError: not two parts, or a part
\* that int() rejects
BadTime(str) ==
    LET parts == Split(str)
    IN  Len(parts) # 2 \/ ~IsInt(parts[1]) \/ ~IsInt(parts[2])

\* f"{n:02d}"
Format02d(n) == IF n < 10 THEN "0" \o ToString(n) ELSE ToString(n)

\* the record e with the fields of extra added: {**e, ...}
Merge(e, extra) ==
    [ k \in DOMAIN e \cup DOMAIN extra |-> IF k \in DOMAIN extra THEN extra[k] ELSE e[k] ]

\* the buffer after arrival, in hours (line 186) and the width of the at-risk
\* window, in minutes (line 207)
BufferHours == 1
RiskWindow == 30

\* lines 200-219 with the window's edge counted as at risk
Classify_InclusiveWindow(available_total, event_start_total) ==
    IF available_total > event_start_total THEN "will_miss"
    ELSE IF available_total >= event_start_total - RiskWindow THEN "at_risk"
    ELSE "on_track"

\* lines 200-219: the list an event goes to
Classify(available_total, event_start_total) ==
    IF available_total > event_start_total THEN "will_miss"
    ELSE IF available_total > event_start_total - RiskWindow THEN "at_risk"
    ELSE "on_track"

\* find_meeting_conflicts, lines 177-228: the dict it returns
FindMeetingConflicts(arrival_time, date) ==
    IF BadTime(arrival_time)
    THEN [error |-> "Invalid arrival_time format: " \o arrival_time \o ". Use HH:MM"]
    ELSE LET events == EventsOn(date)
             arrival_hour == IntOf(Split(arrival_time)[1])
             arrival_min == IntOf(Split(arrival_time)[2])
             available_hour == arrival_hour + BufferHours
             available_min == arrival_min
             available_from == Format02d(available_hour) \o ":" \o Format02d(available_min)
             available_total == available_hour * 60 + available_min
             start_total(e) == IntOf(Split(e.start)[1]) * 60 + IntOf(Split(e.start)[2])
             class(e) == Classify(available_total, start_total(e))
             entry(e) ==
                 CASE class(e) = "will_miss" ->
                        Merge(e, [ status |-> "will_miss",
                                   reason |-> "Arrives at " \o arrival_time
                                              \o ", available from " \o available_from
                                              \o ", meeting starts at " \o e.start ])
                   [] class(e) = "at_risk" ->
                        Merge(e, [ status |-> "at_risk",
                                   reason |-> "Only "
                                              \o ToString(start_total(e) - available_total)
                                              \o " minutes buffer" ])
                   [] OTHER -> Merge(e, [status |-> "on_track"])
             pick(c) == LET chosen == SelectSeq(events, LAMBDA e : class(e) = c)
                        IN  [ i \in 1..Len(chosen) |-> entry(chosen[i]) ]
             conflicts == pick("will_miss")
             at_risk == pick("at_risk")
             safe == pick("on_track")
         IN  [ arrival_time |-> arrival_time,
               available_from |-> available_from,
               conflicts |-> conflicts,
               at_risk |-> at_risk,
               safe |-> safe,
               summary |-> ToString(Len(conflicts)) \o " conflict(s), "
                           \o ToString(Len(at_risk)) \o " at risk, "
                           \o ToString(Len(safe)) \o " on track" ]

\* the arrival times given: every clock time HH:MM, with the hour and minute
\* it was written from, and texts that are not a clock time (hour, minute -1)
ArrivalTimes ==
    { [text |-> Format02d(h) \o ":" \o Format02d(m), hour |-> h, minute |-> m] :
          h \in 0..23, m \in 0..59 }
    \cup { [text |-> t, hour |-> -1, minute |-> -1] :
              t \in {"", "18", "abc", "18:00:00", "18:xx", ":30", "7:5", "25:00"} }

CalendarInit ==
    /\ ClientInit
    /\ ConcIdle
    /\ fn = "find_meeting_conflicts"
    /\ arg \in { [arrival |-> a, date |-> d, ctx |-> x] :
                    a \in ArrivalTimes, d \in {"2026-02-28", "2026-03-01", "2026-03-02"},
                    x \in BOOLEAN }
    /\ res = NoOutcome
    /\ tool_state = EmptyState
    /\ history = <<>>

\* find_meeting_conflicts(arrival_time, date): an error result is returned
\* before anything is stored; otherwise the result is stored under
\* "meeting_conflicts" when there is a context (lines 231-232)
ApplyFindMeetingConflicts ==
    /\ fn = "find_meeting_conflicts" /\ res.kind = "none"
    /\ LET result == FindMeetingConflicts(arg.arrival.text, arg.date)
       IN  /\ res' = Returned(result)
           /\ tool_state' = IF arg.ctx /\ "error" \notin DOMAIN result
                            THEN [k \in {"meeting_conflicts"} |-> result]
                            ELSE tool_state
    /\ UNCHANGED << fn, arg, history, clientVars, concVars >>

CalendarNext == ApplyFindMeetingConflicts

CalendarSpec == CalendarInit /\ [][CalendarNext]_vars

(***************************************************************************)
(* FlightToolsSpec: a session of calls of the flight tools                 *)
(* (sub_agents/flight/tools.py) that share one tool_context.state.  Each   *)
(* step draws a tool, its arguments and what the provider answers to the   *)
(* client's requests; fn, arg and res describe the call made last.         *)
(***************************************************************************)
\* the longest session examined
MaxCalls == 2

\* datetime.now().strftime("%Y-%m-%d") and ("%Y-%m-%dT%H:%M")
Today == "2026-02-27"
NowMinute == "2026-02-27T09:00"

\* str.upper() of one character, for the letters used here
UpperChar(c) ==
    CASE c = "l" -> "L" [] c = "h" -> "H" [] c = "x" -> "X" [] c = "a" -> "A"
      [] c = "m" -> "M" [] c = "f" -> "F" [] c = "r" -> "R" [] OTHER -> c

RECURSIVE NormalizeFlight(_)
\* flight_number.upper().replace(" ", "")
NormalizeFlight(str) ==
    IF Len(str) = 0 THEN ""
    ELSE LET c == SubSeq(str, 1, 1)
             rest == NormalizeFlight(SubSeq(str, 2, Len(str)))
         IN  IF c = " " THEN rest ELSE UpperChar(c) \o rest

RECURSIVE Upper(_)
\* str.upper()
Upper(str) ==
    IF Len(str) = 0 THEN ""
    ELSE UpperChar(SubSeq(str, 1, 1)) \o Upper(SubSeq(str, 2, Len(str)))

RECURSIVE Strip(_)
\* str.strip(), for blanks
Strip(str) ==
    IF Len(str) > 0 /\ SubSeq(str, 1, 1) = " " THEN Strip(SubSeq(str, 2, Len(str)))
    ELSE IF Len(str) > 0 /\ SubSeq(str, Len(str), Len(str)) = " "
         THEN Strip(SubSeq(str, 1, Len(str) - 1))
         ELSE str

\* lines 75-80: the flight number given to the client
FlightDesignator(flight_number) ==
    LET n == NormalizeFlight(flight_number)
    IN  IF IsInt(n) THEN "LH" \o n ELSE n

\* what the provider answers to the data request of a tool's client call, and
\* the case where the auth POST fails first
ToolAnswers ==
    { Ok(Resp(FlightA)), Ok(Resp(JList(<<FlightB, FlightA>>))), Ok(Resp(JList(<<>>))),
      Ok(Resp(With(FlightA, "FlightStatus", JObj([Code |-> JList(<<>>)])))),
      Ok(Resp(JStr("x"))),
      NotFoundAnswer,
      [kind |-> "http", status |-> 500, body |-> NoBody],
      [kind |-> "network", status |-> 0, body |-> NoBody] }

\* what a client method gives the tool: its outcome on a data answer, or the
\* RuntimeError of _get_access_token
ClientOutcomes(c) ==
    { OpOutcome(c, r) : r \in ToolAnswers } \cup { Raised("RuntimeError", 0) }

\* check_flight_status storing whatever the client returned
CheckFlightStatus_StoresErrors(a, o, state) ==
    LET date == IF a.date = None \/ a.date = Some("") THEN Today ELSE a.date[1]
    IN  IF Truthy(a.booking_id) /\ ~Truthy(a.flight_number)
        THEN [ result |-> [ error |-> "Booking ID lookup requires Lufthansa Partner API access. Please provide the flight number directly.",
                            hint |-> "You can find your flight number on your booking confirmation email." ],
               state |-> state ]
        ELSE IF ~Truthy(a.flight_number)
        THEN [ result |-> [error |-> "Please provide a flight_number (e.g., 'LH456')"],
               state |-> state ]
        ELSE IF o.kind = "raised"
        THEN [ result |-> [error |-> "Failed to fetch flight status: " \o ExcText(o)],
               state |-> state ]
        ELSE [ result |-> o.val,
               state |-> IF a.ctx
                         THEN Merge(state, [ current_flight |-> o.val,
                                             flight_number |-> FlightDesignator(a.flight_number[1]),
                                             flight_date |-> date ])
                         ELSE state ]

\* check_flight_status, lines 61-95, with the client's outcome o: the dict
\* returned and the state afterwards
CheckFlightStatus(a, o, state) ==
    LET date == IF a.date = None \/ a.date = Some("") THEN Today ELSE a.date[1]
    IN  IF Truthy(a.booking_id) /\ ~Truthy(a.flight_number)
        THEN [ result |-> [ error |-> "Booking ID lookup requires Lufthansa Partner API access. Please provide the flight number directly.",
                            hint |-> "You can find your flight number on your booking confirmation email." ],
               state |-> state ]
        ELSE IF ~Truthy(a.flight_number)
        THEN [ result |-> [error |-> "Please provide a flight_number (e.g., 'LH456')"],
               state |-> state ]
        ELSE IF o.kind = "raised"
        THEN [ result |-> [error |-> "Failed to fetch flight status: " \o ExcText(o)],
               state |-> state ]
        ELSE [ result |-> o.val,
               state |-> IF a.ctx /\ "error" \notin DOMAIN o.val
                         THEN Merge(state, [ current_flight |-> o.val,
                                             flight_number |-> FlightDesignator(a.flight_number[1]),
                                             flight_date |-> date ])
                         ELSE state ]

\* the client call check_flight_status and get_flight_details make
StatusCallOf(a) ==
    [ op |-> "get_flight_status",
      a |-> IF Truthy(a.flight_number) THEN FlightDesignator(a.flight_number[1]) ELSE "",
      b |-> "",
      date |-> IF a.date = None \/ a.date = Some("") THEN Today ELSE a.date[1],
      limit |-> 0 ]

\* the arguments of check_flight_status
CheckArgs ==
    { [flight_number |-> f, date |-> Some("2026-02-28"), booking_id |-> None, ctx |-> TRUE] :
          f \in {None, Some(""), Some("lh 456"), Some("456"), Some("LX8")} }
    \cup { [flight_number |-> None, date |-> None, booking_id |-> Some("ABC123"), ctx |-> TRUE],
           [flight_number |-> Some("LX8"), date |-> None, booking_id |-> Some("ABC123"), ctx |-> TRUE],
           [flight_number |-> Some("LH456"), date |-> Some("2026-03-01"), booking_id |-> None, ctx |-> FALSE] }

\* a call is added to the session
Called(tool) ==
    /\ Len(history) < MaxCalls
    /\ history' = Append(history, tool)
    /\ fn' = tool

\* check_flight_status(flight_number, date, booking_id, tool_context)
CallCheckFlightStatus ==
    /\ Called("check_flight_status")
    /\ \E a \in CheckArgs : \E o \in ClientOutcomes(StatusCallOf(a)) :
          LET out == CheckFlightStatus(a, o, tool_state)
          IN  /\ arg' = [args |-> a, client |-> o]
              /\ res' = Returned(out.result)
              /\ tool_state' = out.state
    /\ UNCHANGED << clientVars, concVars >>

\* get_flight_details without its try/except
GetFlightDetails_NoExcept(o) == o

\* lines 222-226 of get_flight_details: the client's result, or the error dict
\* made of what the client raised
GetFlightDetails(o) ==
    IF o.kind = "raised"
    THEN Returned([error |-> "Failed to get flight details: " \o ExcText(o)])
    ELSE o

\* get_flight_details(flight_number, date), lines 214-226
CallGetFlightDetails ==
    /\ Called("get_flight_details")
    /\ \E a \in { [flight_number |-> Some("lh 456"), date |-> None],
                 [flight_number |-> Some("8"), date |-> Some("2026-02-28")] } :
       \E o \in ClientOutcomes(StatusCallOf(a)) :
          /\ arg' = [args |-> a, client |-> o]
          /\ res' = GetFlightDetails(o)
    /\ UNCHANGED << tool_state, clientVars, concVars >>

\* get_airport_departures and get_airport_arrivals, lines 249-260 and 283-294
CallGetAirportFlights ==
    \E t \in {"get_airport_departures", "get_airport_arrivals"} :
       /\ Called(t)
       /\ \E a \in { [airport |-> " fra ", from_time |-> None, limit |-> 10],
                    [airport |-> "HAM", from_time |-> Some("2026-02-28T08:00"), limit |-> 1] } :
          LET c == [ op |-> IF t = "get_airport_departures" THEN "get_departures"
                            ELSE "get_arrivals",
                     a |-> Strip(Upper(a.airport)), b |-> "",
                     date |-> IF Truthy(a.from_time) THEN a.from_time[1] ELSE NowMinute,
                     limit |-> a.limit ]
          IN  \E o \in ClientOutcomes(c) :
                 /\ arg' = [args |-> a, client |-> o]
                 /\ res' = Returned(IF o.kind = "raised"
                                    THEN [error |-> (IF t = "get_airport_departures"
                                                     THEN "Failed to get departures: "
                                                     ELSE "Failed to get arrivals: ")
                                                    \o ExcText(o)]
                                    ELSE o.val)
       /\ UNCHANGED << tool_state, clientVars, concVars >>

\* find_alternative_flights(origin, destination, date), lines 135-187
CallFindAlternativeFlights ==
    /\ Called("find_alternative_flights")
    /\ \E a \in { [origin |-> " ham", destination |-> "jfk ", date |-> None, ctx |-> TRUE],
                 [origin |-> "FRA", destination |-> "HAM", date |-> Some("2026-02-28"),
                  ctx |-> TRUE] } :
          LET c == [ op |-> "get_flight_status_by_route",
                     a |-> Strip(Upper(a.origin)), b |-> Strip(Upper(a.destination)),
                     date |-> IF Truthy(a.date) THEN a.date[1] ELSE Today,
                     limit |-> 0 ]
          IN  \E o \in ClientOutcomes(c) :
                 LET result == FindAlternativeFlights(c, "business", o)
                 IN  /\ arg' = [args |-> a, client |-> o]
                     /\ res' = Returned(result)
                     /\ tool_state' = IF a.ctx /\ "error" \notin DOMAIN result
                                      THEN Merge(tool_state, [alternatives |-> result])
                                      ELSE tool_state
    /\ UNCHANGED << clientVars, concVars >>

FlightToolsInit == ClientInit /\ PureIdle /\ ConcIdle

FlightToolsNext ==
    \/ CallCheckFlightStatus
    \/ CallGetFlightDetails
    \/ CallGetAirportFlights
    \/ CallFindAlternativeFlights

FlightToolsSpec == FlightToolsInit /\ [][FlightToolsNext]_vars

(***************************************************************************)
(* CommsSpec: a session of calls of the communication tools                *)
(* (sub_agents/comms/tools.py).  history records, for every call, the      *)
(* tool, whether it was given the shared tool_context and what it          *)
(* returned.                                                               *)
(***************************************************************************)
RECURSIVE Join(_, _)
\* sep.join(parts)
Join(parts, sep) ==
    IF Len(parts) = 0 THEN ""
    ELSE IF Len(parts) = 1 THEN parts[1]
    ELSE parts[1] \o sep \o Join(Tail(parts), sep)

\* lines 66-92 of draft_delay_notification: the draft
DelayDraft(a) ==
    [ type |-> "email",
      to |-> a.recipient_email,
      subject |-> "Travel Update: Flight Delay - New Arrival " \o a.new_arrival,
      body |-> Join(<< "Dear " \o a.recipient_name \o ",",
                       "",
                       "I wanted to inform you that my flight has experienced a delay. Here are the updated details:",
                       "",
                       "**Delay:** " \o a.delay_info,
                       "**New Arrival:** " \o a.new_arrival >>
                    \o (IF Truthy(a.meeting_impact)
                        THEN << "", "**Impact on Our Meeting:** " \o a.meeting_impact[1] >>
                        ELSE << >>)
                    \o << "",
                          "I will keep you updated if there are any further changes. Please let me know if we need to adjust our plans.",
                          "",
                          "Best regards,",
                          a.sender_name >>,
                    "\n"),
      status |-> "draft" ]

\* lines 141-174 of draft_reschedule_request: the draft
RescheduleDraft(a) ==
    LET meeting_ref == IF Truthy(a.meeting_title) THEN " (" \o a.meeting_title[1] \o ")" ELSE ""
        \* the bullet of line 145 (U+2022) is written "*" here
        times_formatted == Join([i \in 1..Len(a.proposed_times) |-> "  * " \o a.proposed_times[i]],
                                "\n")
    IN  [ type |-> "email",
          to |-> a.recipient_email,
          subject |-> "Meeting Reschedule Request: " \o a.original_time \o meeting_ref,
          body |-> Join(<< "Dear " \o a.recipient_name \o ",",
                           "",
                           "Due to " \o a.reason \o ", I need to request a reschedule of our meeting originally planned for "
                              \o a.original_time \o meeting_ref \o ".",
                           "",
                           "Would any of the following alternative times work for you?",
                           "",
                           times_formatted,
                           "",
                           "I apologize for any inconvenience and appreciate your flexibility.",
                           "",
                           "Best regards,",
                           a.sender_name >>,
                        "\n"),
          proposed_times |-> a.proposed_times,
          original_time |-> a.original_time,
          status |-> "draft" ]

\* a store that keeps the newest draft only
StoreDraft_Overwrites(state, result) ==
    Merge(state, [email_drafts |-> << result >>])

\* lines 96-99 and 177-180: state.get("email_drafts", []), append, store
StoreDraft(state, result) ==
    LET drafts == IF "email_drafts" \in DOMAIN state THEN state.email_drafts ELSE << >>
    IN  Merge(state, [email_drafts |-> Append(drafts, result)])

\* the arguments of draft_delay_notification
DelayArgs ==
    { [ recipient_email |-> to, recipient_name |-> "Jane",
        delay_info |-> "90 minute delay", new_arrival |-> "18:00 EST",
        meeting_impact |-> impact, sender_name |-> "Traveler", ctx |-> x ] :
          to \in {"ceo@company.com", "team@company.com"},
          impact \in {None, Some("I will arrive 30 minutes before our board meeting")},
          x \in BOOLEAN }

\* the arguments of draft_reschedule_request
RescheduleArgs ==
    { [ recipient_email |-> "ceo@company.com", recipient_name |-> "Jane",
        original_time |-> "16:00 EST", proposed_times |-> times, reason |-> "flight delay",
        meeting_title |-> title, sender_name |-> "Traveler", ctx |-> x ] :
          times \in { << >>, << "17:00 EST", "18:00 EST" >> },
          title \in {None, Some("Board Meeting")},
          x \in BOOLEAN }

\* draft_delay_notification(...)
CallDraftDelayNotification ==
    /\ Len(history) < MaxCalls
    /\ \E a \in DelayArgs :
          LET result == DelayDraft(a)
          IN  /\ fn' = "draft_delay_notification"
              /\ arg' = a
              /\ res' = Returned(result)
              /\ tool_state' = IF a.ctx THEN StoreDraft(tool_state, result) ELSE tool_state
              /\ history' = Append(history, [tool |-> "draft_delay_notification",
                                             ctx |-> a.ctx, result |-> result])
    /\ UNCHANGED << clientVars, concVars >>

\* draft_reschedule_request(...)
CallDraftRescheduleRequest ==
    /\ Len(history) < MaxCalls
    /\ \E a \in RescheduleArgs :
          LET result == RescheduleDraft(a)
          IN  /\ fn' = "draft_reschedule_request"
              /\ arg' = a
              /\ res' = Returned(result)
              /\ tool_state' = IF a.ctx THEN StoreDraft(tool_state, result) ELSE tool_state
              /\ history' = Append(history, [tool |-> "draft_reschedule_request",
                                             ctx |-> a.ctx, result |-> result])
    /\ UNCHANGED << clientVars, concVars >>

\* send_email(to_email, subject, body), lines 183-212
CallSendEmail ==
    /\ Len(history) < MaxCalls
    /\ \E to \in {"ceo@company.com", "team@company.com"} :
          LET a == [to_email |-> to, subject |-> "Travel Update", body |-> "Dear Jane,"]
              result == [ status |-> "sent", to |-> a.to_email, subject |-> a.subject,
                          message |-> "Email successfully sent to " \o a.to_email ]
          IN  /\ fn' = "send_email"
              /\ arg' = a
              /\ res' = Returned(result)
              /\ history' = Append(history, [tool |-> "send_email", ctx |-> FALSE,
                                             result |-> result])
    /\ UNCHANGED << tool_state, clientVars, concVars >>

CommsInit == ClientInit /\ PureIdle /\ ConcIdle

CommsNext ==
    \/ CallDraftDelayNotification
    \/ CallDraftRescheduleRequest
    \/ CallSendEmail

CommsSpec == CommsInit /\ [][CommsNext]_vars

(***************************************************************************)
(* ConcSpec: two threads call _get_access_token of the one shared client,  *)
(* each once, with no lock around it (the module has none).  A thread can  *)
(* be preempted between any two statements; the clock stands still.        *)
(***************************************************************************)
\* the answers to the auth POST of a thread
ConcAnswers ==
    { [kind |-> "ok", token |-> t, expires_in |-> e] : t \in {"tokA", "tokB"}, e \in {120, 36000} }
    \cup { [kind |-> "http", token |-> "", expires_in |-> 0] }

ConcInit == ClientInit /\ PureIdle /\ ConcIdle

\* lines 57-63: thread t tests the cache, returns the cached token or sends the POST
CCall(t) ==
    /\ c_pc[t] = "idle"
    /\ c_pc' = [c_pc EXCEPT ![t] = IF Truthy(c_token) /\ now < c_expires - ExpiryBuffer
                                   THEN "done" ELSE "posted"]
    /\ UNCHANGED << c_token, c_expires, c_resp, c_from, clientVars, pureVars >>

\* lines 63-77: the POST of thread t is answered; a failure is raised (line 88)
CAnswer(t) ==
    /\ c_pc[t] = "posted"
    /\ \E r \in ConcAnswers :
          /\ c_resp' = [c_resp EXCEPT ![t] = r]
          /\ c_pc' = [c_pc EXCEPT ![t] = IF r.kind = "ok" THEN "answered" ELSE "done"]
    /\ UNCHANGED << c_token, c_expires, c_from, clientVars, pureVars >>

\* line 78: thread t stores the token of its answer
CStoreToken(t) ==
    /\ c_pc[t] = "answered"
    /\ c_token' = Some(c_resp[t].token)
    /\ c_from' = [c_from EXCEPT !.token = t]
    /\ c_pc' = [c_pc EXCEPT ![t] = "token_stored"]
    /\ UNCHANGED << c_expires, c_resp, clientVars, pureVars >>

\* lines 80-84: thread t stores the expiry of its answer and returns
CStoreExpiry(t) ==
    /\ c_pc[t] = "token_stored"
    /\ c_expires' = now + c_resp[t].expires_in
    /\ c_from' = [c_from EXCEPT !.expiry = t]
    /\ c_pc' = [c_pc EXCEPT ![t] = "done"]
    /\ UNCHANGED << c_token, c_resp, clientVars, pureVars >>

ConcNext ==
    \E t \in Threads : CCall(t) \/ CAnswer(t) \/ CStoreToken(t) \/ CStoreExpiry(t)

ConcSpec == ConcInit /\ [][ConcNext]_vars

(***************************************************************************)
(* Properties.  A step with nOps' = nOps + 1 is the invocation of a public *)
(* method; authCalls, dataCalls, authReply, dataReply, sentToken, sentAt   *)
(* and outcome describe the operation invoked last.                        *)
(***************************************************************************)

\* C1: a data operation invoked while a (non-empty) token is cached and
\* now < expires_at - 60 sends its data request at once with the cached token,
\* and no auth POST is sent during the whole operation.
C1_CachedTokenReused ==
    [][ /\ ( /\ nOps' = nOps + 1
             /\ access_token # <<>> /\ access_token[1] # ""
             /\ now < token_expires_at - 60 )
           => ( /\ authCalls' = 0
                /\ dataCalls' = 1
                /\ pc' = "await_data"
                /\ sentToken' = access_token
                /\ access_token' = access_token )
        /\ (nOps' = nOps /\ authCalls = 0) => authCalls' = 0
      ]_vars

\* an operation that reused the token cached by an earlier one has finished
C1_Witness ==
    /\ pc = "done" /\ nOps >= 2
    /\ authCalls = 0 /\ dataCalls = 1
    /\ sentToken = access_token /\ sentToken # <<>>
    /\ sentAt < token_expires_at - 60
    /\ outcome.kind = "value"

\* C2: a data operation invoked when now >= expires_at - 60, or with no token
\* cached, sends exactly one auth POST; no step of the operation sends another,
\* and its data request is sent only by the step in which that auth POST is
\* answered with a token, carrying that token.
C2_StaleTokenRefreshedOnce ==
    [][ /\ ( /\ nOps' = nOps + 1
             /\ \/ access_token = <<>>
                \/ access_token[1] = ""
                \/ now >= token_expires_at - 60 )
           => ( /\ authCalls' = 1
                /\ dataCalls' = 0
                /\ pc' = "await_auth" )
        /\ nOps' = nOps => authCalls' = authCalls
        /\ (nOps' = nOps /\ dataCalls' # dataCalls)
           => ( /\ pc = "await_auth" /\ authCalls = 1
                /\ authReply'.kind = "ok"
                /\ dataCalls = 0 /\ dataCalls' = 1
                /\ sentToken' = access_token'
                /\ sentAt' = now )
      ]_vars

\* a token is cached, it is within 60 s of its expiry (or past it), and the
\* operation invoked has sent its auth POST and no data request
C2_Witness ==
    /\ pc = "await_auth"
    /\ access_token # <<>> /\ access_token[1] # ""
    /\ now >= token_expires_at - 60
    /\ now > StartTime
    /\ authCalls = 1 /\ dataCalls = 0

\* C3: every data request sent carries a non-empty token whose expiry (issue
\* time + expires_in, 36000 when the answer had none) is later than the time
\* the request is sent.
C3_NoExpiredOrAbsentTokenSent ==
    dataCalls = 1 =>
        /\ sentToken # <<>> /\ sentToken[1] # ""
        /\ sentIssue.ekind = "num" => sentIssue.at + sentIssue.expires_in > sentAt
        /\ sentIssue.ekind = "missing" => sentIssue.at + 36000 > sentAt

\* C4: when the auth POST fails (HTTP error status, network failure, timeout) the
\* operation is over with the auth error (RuntimeError) raised to the caller,
\* after that one auth POST and with no data request sent.
C4_AuthFailureRaised ==
    ( \/ authReply.kind \in {"network", "timeout"}
      \/ (authReply.kind = "http" /\ authReply.status >= 400) )
    => ( /\ pc = "done"
         /\ outcome.kind = "raised" /\ outcome.exc = "RuntimeError"
         /\ authCalls = 1
         /\ dataCalls = 0 /\ dataReply.kind = "none" /\ sentToken = <<>> )

\* get_flight_status has ended on an auth POST answered 404
C4_Witness ==
    /\ pc = "done" /\ call.op = "get_flight_status"
    /\ authReply = [kind |-> "http", status |-> 404]
    /\ outcome.kind = "raised"

\* C5: a token that came from an auth answer without expires_in has the stored
\* expiry issue time + 36000; an operation invoked at now < issue time + 36000 - 60
\* reuses it (a non-empty token), one invoked at or after that time refreshes.
C5_DefaultLifetime ==
    /\ [](issued.ekind = "missing" => token_expires_at = issued.at + 36000)
    /\ [][ ( /\ nOps' = nOps + 1
             /\ issued.ekind = "missing"
             /\ access_token # <<>> /\ access_token[1] # "" )
           => IF now < issued.at + 36000 - 60
              THEN /\ authCalls' = 0 /\ dataCalls' = 1
                   /\ sentToken' = access_token
              ELSE /\ authCalls' = 1 /\ dataCalls' = 0
                   /\ pc' = "await_auth"
         ]_vars

\* the third operation is refreshing a token issued without expires_in, exactly
\* 35940 s after its issue
C5_Witness ==
    /\ pc = "await_auth" /\ nOps = 3
    /\ issued.ekind = "missing"
    /\ access_token # <<>> /\ access_token[1] # ""
    /\ now = issued.at + 35940

\* C6: get_flight_status(n, d) whose data request is answered 404 returns
\* {error: "Flight <n> not found for <d>"} and raises nothing.
C6_FlightStatusNotFound ==
    ( /\ pc = "done" /\ call.op = "get_flight_status"
      /\ dataReply = [kind |-> "http", status |-> 404] )
    => ( /\ outcome.kind = "value"
         /\ outcome.val = [error |-> "Flight " \o call.a \o " not found for " \o call.date]
         /\ (call.a = "LH456" /\ call.date = "2026-02-28")
            => outcome.val = [error |-> "Flight LH456 not found for 2026-02-28"] )

\* get_flight_status("LH456", "2026-02-28") has ended on a 404
C6_Witness ==
    /\ pc = "done" /\ call.op = "get_flight_status" /\ call.a = "LH456"
    /\ dataReply = [kind |-> "http", status |-> 404]
    /\ outcome.kind = "value"

\* C7: get_flight_status_by_route(o, d, date) whose data request is answered 404
\* returns {flights: [], message: "No flights found <o>→<d> on <date>"} and
\* raises nothing.
C7_RouteNotFound ==
    ( /\ pc = "done" /\ call.op = "get_flight_status_by_route"
      /\ dataReply = [kind |-> "http", status |-> 404] )
    => ( /\ outcome.kind = "value"
         /\ outcome.val = [ flights |-> <<>>,
                            message |-> "No flights found " \o call.a \o "→" \o call.b
                                        \o " on " \o call.date ]
         /\ (call.a = "HAM" /\ call.b = "JFK" /\ call.date = "2026-02-28")
            => outcome.val = [ flights |-> <<>>,
                               message |-> "No flights found HAM→JFK on 2026-02-28" ] )

\* get_flight_status_by_route("HAM", "JFK", "2026-02-28") has ended on a 404
C7_Witness ==
    /\ pc = "done" /\ call.op = "get_flight_status_by_route"
    /\ call.a = "HAM" /\ call.b = "JFK"
    /\ dataReply = [kind |-> "http", status |-> 404]
    /\ outcome.kind = "value"

\* C8 as claimed: whatever the public method, a data request answered 404 ends
\* in a returned value, never in an exception.
C8_Every404Mapped ==
    (pc = "done" /\ dataReply = [kind |-> "http", status |-> 404])
    => outcome.kind = "value"

\* C8, amended: a data request answered 404 ends in a not-found / empty result
\* for get_flight_status, get_flight_status_by_route and get_schedules, and in
\* HTTPError 404 raised to the caller for get_arrivals, get_departures,
\* get_airport, get_airline and get_aircraft.
C8_404MappedByThreeMethods ==
    (pc = "done" /\ dataReply = [kind |-> "http", status |-> 404])
    => CASE call.op = "get_flight_status" ->
                outcome.kind = "value" /\ DOMAIN outcome.val = {"error"}
         [] call.op = "get_flight_status_by_route" ->
                outcome.kind = "value" /\ outcome.val.flights = <<>>
         [] call.op = "get_schedules" ->
                outcome.kind = "value" /\ outcome.val.schedules = <<>>
         [] OTHER ->
                /\ call.op \in { "get_arrivals", "get_departures", "get_airport",
                                 "get_airline", "get_aircraft" }
                /\ outcome = [ kind |-> "raised", val |-> [none |-> TRUE],
                               exc |-> "HTTPError", status |-> 404 ]

\* get_arrivals has ended on a 404, with HTTPError raised
C8_Witness ==
    /\ pc = "done" /\ call.op = "get_arrivals"
    /\ dataReply = [kind |-> "http", status |-> 404]
    /\ outcome.kind = "raised" /\ outcome.exc = "HTTPError"

\* C9: get_schedules whose data request is answered 404 returns
\* {schedules: [], message: "No schedules found"} and raises nothing.
C9_SchedulesNotFound ==
    ( /\ pc = "done" /\ call.op = "get_schedules"
      /\ dataReply = [kind |-> "http", status |-> 404] )
    => ( /\ outcome.kind = "value"
         /\ outcome.val = [schedules |-> <<>>, message |-> "No schedules found"] )

\* get_schedules has ended on a 404
C9_Witness ==
    /\ pc = "done" /\ call.op = "get_schedules"
    /\ dataReply = [kind |-> "http", status |-> 404]
    /\ outcome.kind = "value"

C16_TokenChangedOnlyByRefresh ==
    [][ /\ pc # "await_auth"
           => (access_token' = access_token /\ token_expires_at' = token_expires_at)
        /\ (access_token' # access_token \/ token_expires_at' # token_expires_at)
           => (authCalls = 1 /\ authReply'.kind = "ok" /\ authReply'.status = 200)
      ]_vars

\* an operation that reused the cached token has had its data call fail with
\* a 500, and the token issued before is still cached
C16_Witness ==
    /\ pc = "done"
    /\ nOps >= 2
    /\ authCalls = 0
    /\ dataCalls = 1
    /\ dataReply.status = 500
    /\ outcome.kind = "raised"
    /\ access_token = <<"tokA">>
    /\ token_expires_at = issued.at + issued.expires_in

\* C18: the cached token never leaves the client: nothing the caller gets
\* from a public operation, neither its result nor the error it raises, holds
\* the token that is cached.
C18_TokenNeverLeavesClient ==
    (outcome.kind # "none" /\ access_token # <<>>)
    => AttachedAuthorization # access_token

\* C19: the result of get_departures and of get_arrivals holds at most
\* `limit` flights, whatever the provider answered.
C19_AtMostLimitFlights ==
    (call.op \in {"get_departures", "get_arrivals"} /\ outcome.kind = "value")
    => LET d == outcome.val
           shaped == /\ d.t = "obj" /\ "FlightStatusResource" \in DOMAIN d.f
                     /\ d.f.FlightStatusResource.t = "obj"
                     /\ "Flights" \in DOMAIN d.f.FlightStatusResource.f
                     /\ d.f.FlightStatusResource.f.Flights.t = "obj"
                     /\ "Flight" \in DOMAIN d.f.FlightStatusResource.f.Flights.f
           F == d.f.FlightStatusResource.f.Flights.f.Flight
       IN  shaped => CASE F.t = "list" -> Len(F.items) <= call.limit
                       [] F.t = "obj" -> 1 <= call.limit
                       [] OTHER -> TRUE

(***************************************************************************)
(* Properties of the parsing functions, under PureSpec: fn is the function *)
(* applied, arg its input and res its outcome once it has been applied.    *)
(***************************************************************************)

\* C11: on every 2xx answer, whatever its body holds, get_flight_status and
\* get_flight_status_by_route raise no exception (a parsing failure comes back
\* as a result value).
C11_ParsingNeverRaises ==
    ( /\ fn \in {"get_flight_status", "get_flight_status_by_route"}
      /\ arg.status = 200
      /\ res.kind # "none" )
    => res.kind = "value"

\* C12 as stated: for every flight object F, get_flight_status gives the same
\* result for Flights.Flight = F and for Flights.Flight = [F].
C12_SingleEqualsList ==
    (fn = "single_or_list" /\ res.kind = "value")
    => res.val.single = res.val.list

\* C12: for every non-empty flight object F, get_flight_status gives the same
\* result for Flights.Flight = F and for Flights.Flight = [F]; for the empty
\* object the single form gives {error: "No flight data in response"} and the
\* list form a result whose fields are all defaults.
C12_NonEmptySingleEqualsList ==
    (fn = "single_or_list" /\ res.kind = "value")
    => IF DOMAIN arg.f # {}
       THEN /\ res.val.single = res.val.list
            /\ res.val.single.kind = "value"
            /\ "error" \notin DOMAIN res.val.single.val
       ELSE /\ res.val.single.kind = "value"
            /\ res.val.single.val = [error |-> "No flight data in response"]
            /\ res.val.list.kind = "value"
            /\ "error" \notin DOMAIN res.val.list.val
            /\ res.val.list.val.flight = [t |-> "str", s |-> ""]

\* a flight object with all its parts has been parsed in both forms
C12_Witness ==
    /\ fn = "single_or_list"
    /\ res.kind = "value"
    /\ DOMAIN arg.f = {"MarketingCarrier", "FlightStatus", "Departure", "Arrival", "Equipment"}
    /\ res.val.list.kind = "value"
    /\ res.val.list.val.flight = [t |-> "str", s |-> "456"]

\* C13 as stated: every result of get_flight_status_by_route has `flights` as
\* a list and a `count` equal to its length; a single object gives one entry,
\* a list gives one entry per provider flight.
C13_RouteResultHasListAndCount ==
    (fn = "get_flight_status_by_route" /\ res.kind = "value")
    => LET d == arg.body.doc
           shaped == /\ d.t = "obj" /\ "FlightStatusResource" \in DOMAIN d.f
                     /\ d.f.FlightStatusResource.t = "obj"
                     /\ "Flights" \in DOMAIN d.f.FlightStatusResource.f
                     /\ d.f.FlightStatusResource.f.Flights.t = "obj"
                     /\ "Flight" \in DOMAIN d.f.FlightStatusResource.f.Flights.f
           F == d.f.FlightStatusResource.f.Flights.f.Flight
       IN  /\ DOMAIN res.val.flights = 1..Len(res.val.flights)
           /\ "count" \in DOMAIN res.val
           /\ res.val.count = Len(res.val.flights)
           /\ (arg.status = 200 /\ shaped /\ F.t = "obj") => Len(res.val.flights) = 1
           /\ (arg.status = 200 /\ shaped /\ F.t = "list")
                 => Len(res.val.flights) = Len(F.items)

\* C13: every result of get_flight_status_by_route has `flights` as a list. For
\* a 2xx answer `count` equals its length, a single non-empty object gives a
\* one-element list, a single empty object gives an empty list, and a list
\* gives one parsed entry per provider flight in the provider's order. The
\* result for a 404 is {flights: [], message} and has no `count`.
C13_RouteResultIsList ==
    (fn = "get_flight_status_by_route" /\ res.kind = "value")
    => LET d == arg.body.doc
           shaped == /\ d.t = "obj" /\ "FlightStatusResource" \in DOMAIN d.f
                     /\ d.f.FlightStatusResource.t = "obj"
                     /\ "Flights" \in DOMAIN d.f.FlightStatusResource.f
                     /\ d.f.FlightStatusResource.f.Flights.t = "obj"
                     /\ "Flight" \in DOMAIN d.f.FlightStatusResource.f.Flights.f
           F == d.f.FlightStatusResource.f.Flights.f.Flight
           named(x) == /\ "MarketingCarrier" \in DOMAIN x.f
                       /\ DOMAIN x.f.MarketingCarrier.f = {"AirlineID", "FlightNumber"}
           designator(x) == x.f.MarketingCarrier.f.AirlineID.s
                            \o x.f.MarketingCarrier.f.FlightNumber.s
           fl == res.val.flights
       IN  /\ DOMAIN fl = 1..Len(fl)
           /\ arg.status = 200 => ("count" \in DOMAIN res.val /\ res.val.count = Len(fl))
           /\ arg.status = 404 => (fl = <<>> /\ DOMAIN res.val = {"flights", "message"})
           /\ (arg.status = 200 /\ shaped /\ F.t = "obj")
                 => /\ Len(fl) = (IF DOMAIN F.f = {} THEN 0 ELSE 1)
                    /\ (DOMAIN F.f # {} /\ named(F))
                          => fl[1].flight = [t |-> "str", s |-> designator(F)]
           /\ (arg.status = 200 /\ shaped /\ F.t = "list")
                 => /\ Len(fl) = Len(F.items)
                    /\ \A i \in 1..Len(fl) :
                          named(F.items[i])
                             => fl[i].flight = [t |-> "str", s |-> designator(F.items[i])]

\* a single flight object has been parsed into a one-element list
C13_Witness ==
    /\ fn = "get_flight_status_by_route"
    /\ res.kind = "value"
    /\ Len(res.val.flights) = 1
    /\ res.val.count = 1
    /\ res.val.flights[1].flight = [t |-> "str", s |-> "LX8"]
    /\ arg.status = 200
    /\ arg.body.doc.f.FlightStatusResource.f.Flights.f.Flight.t = "obj"

\* C14: status-code translation is total: each of CD, DP, LD, RT, DV, HD, FE,
\* NI, OT, DL, NO gives its fixed description, every other code c gives
\* "Unknown (c)".
C14_StatusTranslationTotal ==
    (fn = "status_description" /\ res.kind # "none")
    => /\ res.kind = "value"
       /\ LET table == [ CD |-> "Cancelled", DP |-> "Departed", LD |-> "Landed",
                         RT |-> "Rerouted", DV |-> "Diverted", HD |-> "On Hold",
                         FE |-> "Flight Early", NI |-> "Next Information",
                         OT |-> "On Time", DL |-> "Delayed", NO |-> "No Status" ]
          IN  IF arg.s \in DOMAIN table
              THEN res.val.description = table[arg.s]
              ELSE res.val.description = "Unknown (" \o arg.s \o ")"

\* the code ZZ, which is not in the table, has been translated
C14_Witness ==
    /\ fn = "status_description"
    /\ arg.s = "ZZ"
    /\ res.kind = "value"
    /\ res.val.description = "Unknown (ZZ)"

\* how the result r of get_flight_status is laid out: each of its fields but
\* status_description, with the path of its source in the flight object
FieldSources(r) ==
    << << <<"MarketingCarrier", "FlightNumber">>, r.flight >>,
       << <<"MarketingCarrier", "AirlineID">>, r.airline >>,
       << <<"FlightStatus", "Code">>, r.status >>,
       << <<"Departure", "AirportCode">>, r.departure.airport >>,
       << <<"Departure", "Terminal", "Name">>, r.departure.terminal >>,
       << <<"Departure", "Terminal", "Gate">>, r.departure.gate >>,
       << <<"Departure", "ScheduledTimeLocal", "DateTime">>, r.departure.scheduled >>,
       << <<"Departure", "EstimatedTimeLocal", "DateTime">>, r.departure.estimated >>,
       << <<"Departure", "ActualTimeLocal", "DateTime">>, r.departure.actual >>,
       << <<"Arrival", "AirportCode">>, r.arrival.airport >>,
       << <<"Arrival", "Terminal", "Name">>, r.arrival.terminal >>,
       << <<"Arrival", "Terminal", "Gate">>, r.arrival.gate >>,
       << <<"Arrival", "ScheduledTimeLocal", "DateTime">>, r.arrival.scheduled >>,
       << <<"Arrival", "EstimatedTimeLocal", "DateTime">>, r.arrival.estimated >>,
       << <<"Arrival", "ActualTimeLocal", "DateTime">>, r.arrival.actual >>,
       << <<"Equipment", "AircraftCode">>, r.aircraft.code >>,
       << <<"Equipment", "AircraftRegistration">>, r.aircraft.registration >> >>

\* the flight object x has a value at the path p (of two or three keys)
HasPath(x, p) ==
    /\ p[1] \in DOMAIN x.f
    /\ p[2] \in DOMAIN x.f[p[1]].f
    /\ Len(p) = 3 => p[3] \in DOMAIN x.f[p[1]].f[p[2]].f

\* the answer a is a 200 whose Flights.Flight is a flight object with parts
\* missing, alone or as the first of a list, and not the empty object alone
HoldsFlightObject(a) ==
    /\ a.status = 200 /\ a.body.json
    /\ LET d == a.body.doc
       IN  /\ d.t = "obj" /\ "FlightStatusResource" \in DOMAIN d.f
           /\ d.f.FlightStatusResource.t = "obj"
           /\ "Flights" \in DOMAIN d.f.FlightStatusResource.f
           /\ d.f.FlightStatusResource.f.Flights.t = "obj"
           /\ "Flight" \in DOMAIN d.f.FlightStatusResource.f.Flights.f
           /\ LET F == d.f.FlightStatusResource.f.Flights.f.Flight
              IN  \/ F \in FlightObjects /\ DOMAIN F.f # {}
                  \/ F.t = "list" /\ F.items # <<>> /\ F.items[1] \in FlightObjects

\* the flight object of such an answer
FlightOf(a) ==
    LET F == a.body.doc.f.FlightStatusResource.f.Flights.f.Flight
    IN  IF F.t = "list" THEN F.items[1] ELSE F

\* C15 as stated: in the result of get_flight_status every field whose source
\* is missing from the flight object, the status code included, is the empty
\* string, and nothing is raised.
C15_MissingFieldsAreEmpty ==
    (fn = "get_flight_status" /\ res.kind # "none" /\ HoldsFlightObject(arg))
    => /\ res.kind = "value"
       /\ "error" \notin DOMAIN res.val
       /\ \A i \in 1..17 :
             LET e == FieldSources(res.val)[i]
             IN  ~HasPath(FlightOf(arg), e[1]) => e[2] = [t |-> "str", s |-> ""]

\* C15: in the result of get_flight_status every field whose source is missing
\* from the flight object is the empty string, except the status code, which
\* is "unknown" (with the description "Unknown ()"); a field whose source is
\* there has the source's value; nothing is raised.
C15_MissingFieldsAreDefaults ==
    (fn = "get_flight_status" /\ res.kind # "none" /\ HoldsFlightObject(arg))
    => /\ res.kind = "value"
       /\ "error" \notin DOMAIN res.val
       /\ \A i \in 1..17 :
             LET e == FieldSources(res.val)[i]
                 x == FlightOf(arg)
             IN  IF HasPath(x, e[1])
                 THEN e[2] = (IF Len(e[1]) = 2 THEN x.f[e[1][1]].f[e[1][2]]
                              ELSE x.f[e[1][1]].f[e[1][2]].f[e[1][3]])
                 ELSE e[2] = [t |-> "str", s |-> (IF i = 3 THEN "unknown" ELSE "")]
       /\ ~HasPath(FlightOf(arg), <<"FlightStatus", "Code">>)
             => res.val.status_description = [t |-> "str", s |-> "Unknown ()"]

\* a flight object without Departure.Terminal has been parsed
C15_Witness ==
    /\ fn = "get_flight_status"
    /\ res.kind = "value"
    /\ HoldsFlightObject(arg)
    /\ ~HasPath(FlightOf(arg), <<"Departure", "Terminal", "Gate">>)
    /\ HasPath(FlightOf(arg), <<"Departure", "AirportCode">>)
    /\ res.val.departure.gate = [t |-> "str", s |-> ""]
    /\ res.val.departure.airport = [t |-> "str", s |-> "HAM"]

(***************************************************************************)
(* Properties of concurrent callers, under ConcSpec.                       *)
(***************************************************************************)

\* C17: token refresh is serialized: two threads are never both between the
\* sending of the auth POST and the storing of the expiry, and once no thread
\* is between the two stores the stored token and the stored expiry come from
\* the same auth answer.
C17_RefreshSerialized ==
    /\ ~(\A t \in Threads : c_pc[t] \in {"posted", "answered", "token_stored"})
    /\ ( /\ \A t \in Threads : c_pc[t] # "token_stored"
         /\ c_from.token # 0 /\ c_from.expiry # 0 )
       => c_from.token = c_from.expiry

(***************************************************************************)
(* Properties of the tool find_alternative_flights, under ToolSpec: arg is *)
(* what the route lookup gave, res the dict the tool returned.             *)
(***************************************************************************)

\* C20: find_alternative_flights returns only flights whose designator starts
\* with LH, LX, OS, SN or EW, in ascending order of departure_time, at most 5
\* of them (the first 5 of that order), and `count` is the number of group
\* flights of the route result, before truncation.
C20_GroupFlightsSortedAndTruncated ==
    ( /\ fn = "find_alternative_flights" /\ res.kind = "value"
      /\ "flights" \in DOMAIN res.val )
    => LET given == arg.route.val.flights
           group(f) == \E code \in {"LH", "LX", "OS", "SN", "EW"} :
                          /\ Len(f.flight.s) >= 2
                          /\ SubSeq(f.flight.s, 1, 2) = code
           wanted == { i \in 1..Len(given) : group(given[i]) }
           fl == res.val.flights
           occurs(f, seq) == Cardinality({ i \in 1..Len(seq) : seq[i] = f })
       IN  /\ \A i \in 1..Len(fl) : group(fl[i])
           /\ \A i, j \in 1..Len(fl) :
                 i < j => TimeRank(fl[i].departure_time.s) <= TimeRank(fl[j].departure_time.s)
           /\ res.val.count = Cardinality(wanted)
           /\ Len(fl) = (IF res.val.count < 5 THEN res.val.count ELSE 5)
           /\ \A i \in 1..Len(fl) : occurs(fl[i], fl) <= occurs(fl[i], given)
           /\ \A k \in wanted :
                 occurs(given[k], fl) < occurs(given[k], given)
                    => /\ Len(fl) = 5
                       /\ TimeRank(fl[5].departure_time.s)
                             <= TimeRank(given[k].departure_time.s)

\* six group flights given out of order have been sorted and cut to five, with
\* count 6
C20_Witness ==
    /\ fn = "find_alternative_flights"
    /\ res.kind = "value"
    /\ "flights" \in DOMAIN res.val
    /\ Len(arg.route.val.flights) = 6
    /\ res.val.count = 6
    /\ Len(res.val.flights) = 5
    /\ arg.route.val.flights[1].flight.s = "LH400"
    /\ arg.route.val.flights[6].flight.s = "OS1"
    /\ res.val.flights[1].flight.s = "OS1"
    /\ res.val.flights[2].flight.s = "LX8"
    /\ res.val.flights[5].flight.s = "LH400"

C22_RecommendationIsListed ==
    ( /\ fn = "find_alternative_flights" /\ res.kind = "value"
      /\ "recommendation" \in DOMAIN res.val
      /\ res.val.recommendation # <<>> )
    => \E i \in 1..Len(res.val.flights) :
          LET f == res.val.flights[i]
          IN  res.val.recommendation[1]
                 = f.flight.s \o " - departs "
                   \o (IF f.departure_time.t = "str" THEN f.departure_time.s ELSE "None")

(***************************************************************************)
(* Properties of the tool find_meeting_conflicts, under CalendarSpec: arg  *)
(* holds the arrival time (as text, and the hour and minute it stands for) *)
(* and the date, res the dict the tool returned.                           *)
(***************************************************************************)

C24_AvailableFromIsClockTime ==
    ( /\ fn = "find_meeting_conflicts" /\ res.kind = "value"
      /\ arg.arrival.hour >= 0 )
    => /\ "available_from" \in DOMAIN res.val
       /\ \E h \in 0..23, m \in 0..59 :
             /\ res.val.available_from
                   = (IF h < 10 THEN "0" ELSE "") \o ToString(h) \o ":"
                     \o (IF m < 10 THEN "0" ELSE "") \o ToString(m)
             /\ h = (arg.arrival.hour + 1) % 24
             /\ m = arg.arrival.minute

\* C25: check_flight_status changes the keys current_flight, flight_number and
\* flight_date of the shared state only on success: when no flight number is
\* given, when the client raises or when its result holds an error, the three
\* keys are what they were; on success the three are the result, the
\* normalized flight number and the date.
C25_StateChangedOnlyOnSuccess ==
    [][ (fn' = "check_flight_status" /\ history' # history /\ arg'.args.ctx)
        => LET a == arg'.args
               o == arg'.client
               keys == {"current_flight", "flight_number", "flight_date"}
               failed == \/ ~Truthy(a.flight_number)
                         \/ o.kind = "raised"
                         \/ "error" \in DOMAIN o.val
               date == IF Truthy(a.date) THEN a.date[1] ELSE Today
               number == LET n == NormalizeFlight(a.flight_number[1])
                         IN  IF IsInt(n) THEN "LH" \o n ELSE n
           IN  /\ failed => \A k \in keys :
                               /\ (k \in DOMAIN tool_state') = (k \in DOMAIN tool_state)
                               /\ k \in DOMAIN tool_state => tool_state'[k] = tool_state[k]
               /\ ~failed => /\ keys \subseteq DOMAIN tool_state'
                             /\ tool_state'.current_flight = res'.val
                             /\ tool_state'.current_flight = o.val
                             /\ tool_state'.flight_number = number
                             /\ tool_state'.flight_date = date
               /\ \A k \in DOMAIN tool_state \ keys :
                     k \in DOMAIN tool_state' /\ tool_state'[k] = tool_state[k] ]_vars

\* a lookup of "lh 456" succeeded and stored LH456; the next lookup, of LX8, was
\* answered 404 and the three keys still hold the first flight
C25_Witness ==
    /\ history = << "check_flight_status", "check_flight_status" >>
    /\ arg.args.flight_number = Some("LX8")
    /\ arg.client.kind = "value"
    /\ "error" \in DOMAIN arg.client.val
    /\ "error" \in DOMAIN res.val
    /\ "current_flight" \in DOMAIN tool_state
    /\ "error" \notin DOMAIN tool_state.current_flight
    /\ tool_state.flight_number = "LH456"
    /\ tool_state.flight_date = "2026-02-28"

\* C26: a flight tool never propagates what the client raised: whatever the
\* client does, the tool returns a dict, and when the client raised that dict
\* is {error: "Failed to ..."}.
C26_ToolsNeverRaise ==
    fn \in { "check_flight_status", "find_alternative_flights", "get_flight_details",
             "get_airport_departures", "get_airport_arrivals" }
    => /\ res.kind = "value"
       /\ ( /\ arg.client.kind = "raised"
            /\ fn = "check_flight_status" => Truthy(arg.args.flight_number) )
          => /\ DOMAIN res.val = {"error"}
             /\ StartsWith(res.val.error, "Failed to ")

\* the auth POST failed during get_flight_details and the tool returned the
\* error dict
C26_Witness ==
    /\ fn = "get_flight_details"
    /\ arg.client = Raised("RuntimeError", 0)
    /\ res = Returned([error |-> "Failed to get flight details: RuntimeError"])


\* C27: after any sequence of draft_delay_notification and
\* draft_reschedule_request calls sharing one tool context, email_drafts holds
\* exactly one draft per such call, in call order, each with status "draft";
\* a call keeps the earlier drafts as they were, and send_email leaves the
\* state as it was.
C27_OneDraftPerCallInOrder ==
    [][ LET drafting == {"draft_delay_notification", "draft_reschedule_request"}
            made(h) == SelectSeq(h, LAMBDA h1 : h1.tool \in drafting /\ h1.ctx)
            held(state) == IF "email_drafts" \in DOMAIN state THEN state.email_drafts
                           ELSE << >>
        IN  /\ Len(held(tool_state')) = Len(made(history'))
            /\ \A i \in 1..Len(made(history')) :
                  /\ held(tool_state')[i] = made(history')[i].result
                  /\ held(tool_state')[i].status = "draft"
            /\ Len(held(tool_state')) >= Len(held(tool_state))
            /\ \A i \in 1..Len(held(tool_state)) :
                  held(tool_state')[i] = held(tool_state)[i]
            /\ fn' = "send_email" => tool_state' = tool_state ]_vars

\* a delay notification and then a reschedule request were drafted with the
\* shared context: two drafts are held, the notification first
C27_Witness ==
    /\ Len(history) = 2
    /\ history[1].tool = "draft_delay_notification" /\ history[1].ctx
    /\ history[2].tool = "draft_reschedule_request" /\ history[2].ctx
    /\ "email_drafts" \in DOMAIN tool_state
    /\ Len(tool_state.email_drafts) = 2
    /\ tool_state.email_drafts[1] = history[1].result
    /\ tool_state.email_drafts[2] = history[2].result
    /\ "proposed_times" \in DOMAIN tool_state.email_drafts[2]


\* C28: the 404 mapping applies to the data request only: when the auth POST
\* is answered 404, get_flight_status, get_flight_status_by_route and
\* get_schedules raise the authentication failure and return nothing.
C28_Auth404IsRaised ==
    ( /\ pc = "done"
      /\ call.op \in {"get_flight_status", "get_flight_status_by_route", "get_schedules"}
      /\ authReply.kind = "http" /\ authReply.status = NotFound )
    => /\ outcome = Raised("RuntimeError", 0)
       /\ dataCalls = 0

\* get_flight_status_by_route ended after its auth POST was answered 404
C28_Witness ==
    /\ pc = "done"
    /\ call.op = "get_flight_status_by_route"
    /\ authReply = [kind |-> "http", status |-> NotFound]
    /\ outcome.kind = "raised"


\* C29: a refresh is all-or-nothing: when the refresh an operation started does
\* not complete (auth HTTP error, network failure, token document without
\* access_token, or an expires_in that cannot be added to a time), the stored
\* token and the stored expiry are both what they were before it.
C29_FailedRefreshLeavesPairUntouched ==
    [][ (pc = "await_auth" /\ pc' = "done" /\ outcome'.kind = "raised")
        => /\ access_token' = access_token
           /\ token_expires_at' = token_expires_at ]_vars


====
